---------------------------- MODULE Spec2Model ----------------------------
(***************************************************************************)
(* A model of wimlib's extraction engine (src/src/extract.c) and of its    *)
(* archive writer / overwriter (src/src/write.c).                          *)
(*                                                                         *)
(* Spec       one extract_tree() call on a small image                     *)
(* WriteSpec  a wimlib_write() call, or a sequence of wimlib_overwrite()   *)
(*            and wimlib_overwrite_xml_and_header() calls on a WIMStruct   *)
(***************************************************************************)
EXTENDS Integers, Sequences, FiniteSets, TLC

(***************************************************************************)
(* Bounds of the model.                                                    *)
(***************************************************************************)
\* dentries of the image: dentry 1 is the root, below it two branches
NumDentries == 4
\* stream descriptors (lookup table entries) of the archive
NumStreams == 2
\* extract flags set at once in one extract_tree call
MaxFlags == 2

NULL == 0      \* a null pointer / an unresolved stream hash

Dentries == 1..NumDentries
Streams  == 1..NumStreams

(***************************************************************************)
(* The dentry tree: the root (dentry 1) with two branches below it, the    *)
(* dentries 2, 4, 6, ... and 3, 5, 7, ...  Children are ordered by name;   *)
(* here by number.                                                         *)
(***************************************************************************)
\* dentry->parent, NULL for the root
Parent(d) == IF d = 1 THEN 0 ELSE IF d = 2 THEN 1 ELSE d - 2

Children(d) == {c \in Dentries : Parent(c) = d}

\* a dentry with children is a directory, a leaf is a non-directory
dentry_is_directory(d) == Children(d) # {}

Files == {d \in Dentries : ~dentry_is_directory(d)}
FirstFile == CHOOSE f \in Files : \A g \in Files : f <= g

RECURSIVE SubtreeSeq(_, _, _)
\* the subtree of d as a sequence: pre-order when pre, else post-order;
\* todo holds the children of d still to visit
SubtreeSeq(d, todo, pre) ==
    IF todo = {}
    THEN <<d>>
    ELSE LET c    == CHOOSE x \in todo : \A y \in todo : x <= y
             sub  == SubtreeSeq(c, Children(c), pre)
             rest == SubtreeSeq(d, todo \ {c}, pre)
         IN IF pre THEN <<d>> \o sub \o Tail(rest)
            ELSE sub \o rest

\* for_dentry_in_tree(): the visiting order of a pre-order walk
PreOrder(d) == SubtreeSeq(d, Children(d), TRUE)
\* for_dentry_in_tree_depth(): the visiting order of a post-order walk
PostOrder(d) == SubtreeSeq(d, Children(d), FALSE)

Range(s) == {s[i] : i \in 1..Len(s)}
Subtree(d) == Range(PreOrder(d))

RECURSIVE IsAncestor(_, _)
IsAncestor(a, d) == d > 1 /\ (Parent(d) = a \/ IsAncestor(a, Parent(d)))

(***************************************************************************)
(* Stream descriptors: position and size in the archive.                   *)
(***************************************************************************)
\* archive position of a descriptor, the key of cmp_streams_by_wim_position:
\* descriptor 1 lies behind the others, which share a position (as the
\* parts of a split archive do)
WimPosition(s) == IF s = 1 THEN 2 ELSE 1
\* wim_resource_size()
wim_resource_size(s) == 50 * s

(***************************************************************************)
(* Extract flags.                                                          *)
(***************************************************************************)
FlagNames == {"NTFS", "SYMLINK", "HARDLINK", "SEQUENTIAL", "VERBOSE",
              "RPFIX", "TO_STDOUT"}
LinkFlags == {"SYMLINK", "HARDLINK"}

\* what check_extract_command() lets through to extract_tree()
CommandOk(path_empty, flags) ==
    /\ ~(LinkFlags \subseteq flags)
    /\ "NTFS" \in flags => (flags \cap LinkFlags = {} /\ path_empty)
    /\ "RPFIX" \in flags => path_empty

VARIABLES
    img,              \* the image: d_inode, i_lte, i_ads
    cmd,              \* the call: path_empty, root, flags, progress
    pc,               \* position in extract_tree()
    ret,              \* extract_tree()'s ret
    extract_flags,    \* extract_tree()'s local extract_flags
    args_flags,       \* args.extract_flags
    vol,              \* args.vol: "none", "mounted", "unmounted"
    out_refcnt,       \* lte->out_refcnt
    extracted_file,   \* lte->extracted_file != NULL
    lte_dentry_list,  \* lte->lte_dentry_list
    needs_extraction, \* dentry->needs_extraction
    i_visited,        \* inode->i_visited
    i_extracted,      \* inode->i_extracted_file != NULL (backend)
    stream_list,      \* extract_tree()'s stream_list
    progress,         \* args.progress.extract
    next_progress,    \* apply_stream_list()'s next_progress
    pos,              \* loop positions: idx (tree walk), li, di (phase B)
    trace,            \* history: progress messages and backend calls
    planned,          \* history: the stream list as planned
    wim,              \* WIMStruct of the writer: filename, fp, out_fp, hdr, xml
    fs,               \* the file system: path -> file content or NoFile
    wpc,              \* position in the current writer call
    call,             \* the current writer call: op, flags, locals
    wtrace,           \* history: steps of the current writer call
    log               \* history: the finished writer calls

VARIABLES
    api,              \* the wimlib_extract_files()/wimlib_extract_image() call
    apc,              \* position in that call
    atrace            \* history of that call


engineVars == <<img, cmd, pc, ret, extract_flags, args_flags, vol, out_refcnt,
                extracted_file, lte_dentry_list, needs_extraction, i_visited,
                i_extracted, stream_list, progress, next_progress, pos, trace,
                planned>>
archiveVars == <<wim, fs, wpc, call, wtrace, log>>
apiVars == <<api, apc, atrace>>
\* what a step of the writer leaves alone, and what a step of extract_tree()
\* leaves alone besides its own variables
extractVars == <<engineVars, apiVars>>
writeVars == <<archiveVars, apiVars>>
vars == <<extractVars, writeVars>>

(***************************************************************************)
(* Accessors of the image.                                                 *)
(***************************************************************************)
d_inode(d) == img.d_inode[d]
\* inode_unnamed_lte_resolved(): NULL or a descriptor
inode_unnamed_lte_resolved(inode) == img.i_lte[inode]
\* the descriptors of the inode's named alternate data streams
i_ads_ltes(inode) == IF inode = FirstFile THEN img.i_ads ELSE <<>>
\* inode_stream_lte_resolved() for every i in 0..i_num_ads
inode_stream_ltes(inode) ==
    Range(<<inode_unnamed_lte_resolved(inode)>> \o i_ads_ltes(inode)) \ {NULL}

Ev(e, x, ph) == [ev |-> e, x |-> x, ph |-> ph]


(***************************************************************************)
(* The extraction planner: find_streams_for_extraction().                  *)
(* A planner state st holds out_refcnt, i_visited, lte_dentry_list,        *)
(* stream_list and needs_extraction.                                       *)
(***************************************************************************)
\* a first walk that leaves every out_refcnt as it was
KeepRefcnts(seq, i, rc) == rc
RECURSIVE ZeroRefcnts(_, _, _)
\* dentry_resolve_and_zero_lte_refcnt() over the dentries seq[i..]
ZeroRefcnts(seq, i, rc) ==
    IF i > Len(seq) THEN rc
    ELSE ZeroRefcnts(seq, i + 1,
            [s \in Streams |->
                IF s \in inode_stream_ltes(d_inode(seq[i])) THEN 0 ELSE rc[s]])

\* a first reference that appends the descriptor to the stream list and
\* leaves its dentry list as it was
AddWithoutInit(lte, st) ==
    LET n == st.out_refcnt[lte] + 1
    IN  [st EXCEPT !.out_refcnt[lte] = n,
                   !.stream_list = IF n = 1 THEN Append(@, lte) ELSE @]
\* maybe_add_stream_for_extraction(): the first reference of a descriptor
\* initialises its dentry list and appends it to the stream list
maybe_add_stream_for_extraction(lte, st) ==
    LET n == st.out_refcnt[lte] + 1
    IN  [st EXCEPT !.out_refcnt[lte] = n,
                   !.lte_dentry_list[lte] = IF n = 1 THEN <<>> ELSE @,
                   !.stream_list = IF n = 1 THEN Append(@, lte) ELSE @]

\* list_add_tail(&dentry->tmp_list, &lte->lte_dentry_list)
AddDentry(d, lte, st) ==
    [st EXCEPT !.lte_dentry_list[lte] = Append(@, d)]

\* a planner that counts every dentry, hard links included
EveryDentryCounts(inode, st) == TRUE
\* whether the inode's streams are counted on this visit of a dentry of it
InodeCounts(inode, st) == st.i_visited[inode] = 0

\* whether alternate data streams are included: with NTFS-3g, when
\* extracting to an NTFS volume
IncludeAds(flags) == "NTFS" \in flags

RECURSIVE AdsLoop(_, _, _, _, _)
\* the loop over inode->i_ads_entries; r = [st, added]
AdsLoop(d, ads, i, r, counts) ==
    IF i > Len(ads) THEN r
    ELSE LET lte == ads[i]
             st1 == IF lte # NULL /\ counts
                    THEN maybe_add_stream_for_extraction(lte, r.st) ELSE r.st
             st2 == IF lte # NULL /\ ~r.added THEN AddDentry(d, lte, st1)
                    ELSE st1
         IN AdsLoop(d, ads, i + 1,
                    [st |-> st2, added |-> r.added \/ lte # NULL], counts)

dentry_find_streams_to_extract(d, st, flags) ==
    LET inode  == d_inode(d)
        counts == InodeCounts(inode, st)
        st0 == [st EXCEPT !.needs_extraction[d] = 1]
        lte == inode_unnamed_lte_resolved(inode)
        st1 == IF lte # NULL /\ counts
               THEN maybe_add_stream_for_extraction(lte, st0) ELSE st0
        st2 == IF lte # NULL THEN AddDentry(d, lte, st1) ELSE st1
        r   == IF IncludeAds(flags)
               THEN AdsLoop(d, i_ads_ltes(inode), 1,
                            [st |-> st2, added |-> lte # NULL], counts)
               ELSE [st |-> st2, added |-> lte # NULL]
    IN [r.st EXCEPT !.i_visited[inode] = 1]

RECURSIVE FindStreams(_, _, _, _)
FindStreams(seq, i, st, flags) ==
    IF i > Len(seq) THEN st
    ELSE FindStreams(seq, i + 1,
                     dentry_find_streams_to_extract(seq[i], st, flags), flags)

\* a planner without the first walk
PlanWithoutFirstWalk(root, st, flags) ==
    FindStreams(PreOrder(root), 1, [st EXCEPT !.stream_list = <<>>], flags)

find_streams_for_extraction(root, st, flags) ==
    LET walk == PreOrder(root)
        st0 == [st EXCEPT !.out_refcnt = ZeroRefcnts(walk, 1, @),
                          !.stream_list = <<>>]
    IN FindStreams(walk, 1, st0, flags)

(***************************************************************************)
(* calculate_bytes_to_extract()                                            *)
(***************************************************************************)
\* a total that counts every stream once whatever its reference count
ShareOnce(lte, flags, rc, xf) == <<1, wim_resource_size(lte)>>
\* a total that in a link mode counts a stream again that was extracted
CountExtractedToo(lte, flags, rc, xf) ==
    IF flags \cap LinkFlags # {}
    THEN <<1, wim_resource_size(lte)>>
    ELSE <<rc[lte], rc[lte] * wim_resource_size(lte)>>
\* what one descriptor of the stream list adds to <<num_streams, total_bytes>>
StreamShare(lte, flags, rc, xf) ==
    IF flags \cap LinkFlags # {}
    THEN IF ~xf[lte] THEN <<1, wim_resource_size(lte)>> ELSE <<0, 0>>
    ELSE <<rc[lte], rc[lte] * wim_resource_size(lte)>>

RECURSIVE SumShares(_, _, _, _, _)
SumShares(slist, i, flags, rc, xf) ==
    IF i > Len(slist) THEN <<0, 0>>
    ELSE LET a == StreamShare(slist[i], flags, rc, xf)
             b == SumShares(slist, i + 1, flags, rc, xf)
         IN <<a[1] + b[1], a[2] + b[2]>>

calculate_bytes_to_extract(slist, flags, rc, xf) ==
    LET t == SumShares(slist, 1, flags, rc, xf)
    IN [num_streams |-> t[1], total_bytes |-> t[2], completed_bytes |-> 0]

(***************************************************************************)
(* sort_stream_list_by_wim_position()                                      *)
(***************************************************************************)
ListPermutations(s) ==
    {[i \in 1..Len(s) |-> s[f[i]]] :
        f \in {g \in [1..Len(s) -> 1..Len(s)] :
                 \A i, j \in 1..Len(s) : i # j => g[i] # g[j]}}

\* a list in non-increasing order of the positions
SortedBackwards(s) ==
    \A i \in 1..Len(s) - 1 : WimPosition(s[i]) >= WimPosition(s[i + 1])

\* cmp_streams_by_wim_position() finds no pair out of order
SortedByPosition(s) ==
    \A i \in 1..Len(s) - 1 : WimPosition(s[i]) <= WimPosition(s[i + 1])

\* a sort that leaves the list as it is
Unsorted(slist) == {slist}
\* the lists qsort() may leave: qsort() orders by the key and promises
\* nothing about elements whose keys compare equal
QsortResults(slist) == {p \in ListPermutations(slist) : SortedByPosition(p)}

\* a sort that has emptied the list before it allocates the array
SortFailureDropsList(slist, alloc) ==
    IF alloc THEN {[ret |-> "OK", list |-> p] : p \in QsortResults(slist)}
    ELSE {[ret |-> "NOMEM", list |-> <<>>]}

\* the outcomes of sort_stream_list_by_wim_position(): the list is not
\* touched when the array cannot be allocated, lines 353-361
sort_stream_list_by_wim_position(slist, alloc) ==
    IF alloc THEN {[ret |-> "OK", list |-> p] : p \in QsortResults(slist)}
    ELSE {[ret |-> "NOMEM", list |-> slist]}

(***************************************************************************)
(* The backend behind ops->apply_dentry (unix / NTFS-3g apply code).       *)
(***************************************************************************)
SelectNonNull(s) == SelectSeq(s, LAMBDA x : x # NULL)

\* the descriptors the backend reads from the archive when it materialises
\* dentry d: an inode's data is read for its first dentry and linked for
\* the others; in a link mode a descriptor is read for its first file only
BackendReads(d, flags, xf, ix) ==
    LET inode == d_inode(d)
        lte   == inode_unnamed_lte_resolved(inode)
    IN  IF dentry_is_directory(d) THEN <<>>
        ELSE IF "NTFS" \in flags
        THEN IF ix[inode] THEN <<>>
             ELSE SelectNonNull(<<lte>> \o i_ads_ltes(inode))
        ELSE IF lte = NULL THEN <<>>
        ELSE IF flags \cap LinkFlags # {}
        THEN IF xf[lte] THEN <<>> ELSE <<lte>>
        ELSE IF ix[inode] THEN <<>> ELSE <<lte>>

RECURSIVE SumSizes(_, _)
SumSizes(s, i) ==
    IF i > Len(s) THEN 0 ELSE wim_resource_size(s[i]) + SumSizes(s, i + 1)

ReadEvents(s, ph) == [i \in 1..Len(s) |-> Ev("read", s[i], ph)]

\* the transient state a successful apply_dentry leaves; x holds trace,
\* progress, extracted_file and i_extracted
BackendApply(d, flags, ph, x) ==
    LET inode == d_inode(d)
        lte   == inode_unnamed_lte_resolved(inode)
        reads == BackendReads(d, flags, x.extracted_file, x.i_extracted)
    IN  [x EXCEPT
           !.trace = @ \o ReadEvents(reads, ph) \o <<Ev("apply_dentry", d, ph)>>,
           !.progress.completed_bytes = @ + SumSizes(reads, 1),
           !.extracted_file =
               IF flags \cap LinkFlags # {} /\ lte # NULL
                  /\ ~dentry_is_directory(d)
               THEN [@ EXCEPT ![lte] = TRUE] ELSE @,
           !.i_extracted =
               IF dentry_is_directory(d) THEN @ ELSE [@ EXCEPT ![inode] = TRUE]]

(***************************************************************************)
(* maybe_apply_dentry()                                                    *)
(***************************************************************************)
\* the two early returns of maybe_apply_dentry()
MaybeApplySkips(d, needs, flags) ==
    \/ needs[d] = 0
    \/ /\ "NO_STREAMS" \in flags
       /\ ~dentry_is_directory(d)
       /\ inode_unnamed_lte_resolved(d_inode(d)) # NULL

\* a flag that is never cleared
NeedsKept(d, needs, ok) == needs
\* needs_extraction after apply_dentry returned ok
NeedsAfterApply(d, needs, ok) ==
    IF ok THEN [needs EXCEPT ![d] = 0] ELSE needs

\* messages reach the caller only when there is a progress function
Emit(tr, msg, x) ==
    IF cmd.progress THEN Append(tr, Ev(msg, x, "msg")) ELSE tr

\* x holds needs_extraction, trace, progress, extracted_file, i_extracted;
\* the result adds ret
maybe_apply_dentry(d, ok, x) ==
    IF MaybeApplySkips(d, x.needs_extraction, args_flags)
    THEN [st |-> x, ret |-> "OK"]
    ELSE LET ph == IF "NO_STREAMS" \in args_flags THEN "A" ELSE "B"
             x1 == [x EXCEPT !.trace =
                       IF "VERBOSE" \in args_flags
                       THEN Emit(@, "EXTRACT_DENTRY", d) ELSE @]
             x2 == IF ok THEN BackendApply(d, args_flags, ph, x1)
                   ELSE [x1 EXCEPT !.trace =
                            Append(@, Ev("apply_dentry_failed", d, ph))]
         IN [st  |-> [x2 EXCEPT !.needs_extraction =
                                   NeedsAfterApply(d, @, ok)],
             ret |-> IF ok THEN "OK" ELSE "WRITE"]

ApplyState ==
    [needs_extraction |-> needs_extraction, trace |-> trace,
     progress |-> progress, extracted_file |-> extracted_file,
     i_extracted |-> i_extracted]

SetApplyState(x) ==
    /\ needs_extraction' = x.needs_extraction
    /\ trace' = x.trace
    /\ progress' = x.progress
    /\ extracted_file' = x.extracted_file
    /\ i_extracted' = x.i_extracted

(***************************************************************************)
(* extract_tree()                                                          *)
(***************************************************************************)
\* ~0ULL in next_progress: no further EXTRACT_STREAMS message
NoMoreProgress == -1

Min(a, b) == IF a <= b THEN a ELSE b

\* a begin message that ignores the source path
TreeBeginMessage(path_empty) == "EXTRACT_TREE_BEGIN"
\* the first and the last message of extract_tree(), lines 512 and 572
BeginMessage(path_empty) ==
    IF path_empty THEN "EXTRACT_IMAGE_BEGIN" ELSE "EXTRACT_TREE_BEGIN"
EndMessage(path_empty) ==
    IF path_empty THEN "EXTRACT_IMAGE_END" ELSE "EXTRACT_TREE_END"

\* an early failure that returns at once
ReturnAtOnce == "out"
\* where the failures of get_dentry() and of
\* calculate_dentry_tree_full_paths() go to
EarlyExit == "out_ntfs_umount"

\* the images: hard links (files sharing an inode, named by its first
\* file), the unnamed stream of every inode, and named streams on the
\* inode of the first file
Images ==
    {[d_inode |-> [d \in Dentries |-> IF d \in Files THEN ino[d] ELSE d],
      i_lte   |-> [d \in Dentries |-> IF d \in Files THEN lte[d] ELSE NULL],
      i_ads   |-> ads] :
        ino \in {f \in [Files -> Files] :
                    \A d \in Files : f[d] <= d /\ f[f[d]] = f[d]},
        lte \in [Files -> {NULL} \cup Streams],
        ads \in {<<>>} \cup {<<s>> : s \in Streams}}

WellFormedImage(i) ==
    \A d \in Files : i.d_inode[d] # d => i.i_lte[d] = NULL

\* the calls: get_dentry() finds root, or nothing (root = NULL)
Commands ==
    {[path_empty |-> pe, root |-> r, flags |-> f, progress |-> p] :
        pe \in BOOLEAN, r \in {NULL} \cup Dentries,
        f \in {g \in SUBSET FlagNames : Cardinality(g) <= MaxFlags},
        p \in BOOLEAN}

WellFormedCommand(c) ==
    /\ CommandOk(c.path_empty, c.flags)
    /\ c.path_empty <=> c.root \in {NULL, 1}

ExtractInit ==
    /\ img \in {i \in Images : WellFormedImage(i)}
    /\ cmd \in {c \in Commands : WellFormedCommand(c)}
    /\ pc = "start"
    /\ ret = "OK"
    /\ extract_flags = cmd.flags
    /\ args_flags = cmd.flags
    /\ vol = "none"
    /\ out_refcnt = [s \in Streams |-> 0]
    /\ extracted_file = [s \in Streams |-> FALSE]
    /\ lte_dentry_list = [s \in Streams |-> <<>>]
    /\ needs_extraction = [d \in Dentries |-> 0]
    /\ i_visited = [d \in Dentries |-> 0]
    /\ i_extracted = [d \in Dentries |-> FALSE]
    /\ stream_list = <<>>
    /\ progress = [num_streams |-> 0, total_bytes |-> 0, completed_bytes |-> 0]
    /\ next_progress = 0
    /\ pos = [idx |-> 0, li |-> 0, di |-> 0]
    /\ trace = <<>>
    /\ planned = <<>>

\* ntfs_mount(), lines 470-482
MountVolume ==
    /\ pc = "start"
    /\ "NTFS" \in extract_flags
    /\ \E ok \in BOOLEAN :
         IF ok
         THEN /\ vol' = "mounted"
              /\ trace' = Append(trace, Ev("ntfs_mount", 0, "call"))
              /\ pc' = "get_dentry"
              /\ ret' = ret
         ELSE /\ ret' = "NTFS_3G"
              /\ pc' = "out"
              /\ UNCHANGED <<vol, trace>>
    /\ UNCHANGED <<img, cmd, extract_flags, args_flags, out_refcnt,
                   extracted_file, lte_dentry_list, needs_extraction,
                   i_visited, i_extracted, stream_list, progress,
                   next_progress, pos, planned, writeVars>>

\* get_dentry() and calculate_dentry_tree_full_paths(), lines 484-495
GetDentry ==
    /\ \/ pc = "get_dentry"
       \/ pc = "start" /\ "NTFS" \notin extract_flags
    /\ IF cmd.root = NULL
       THEN ret' = "PATH_DOES_NOT_EXIST" /\ pc' = EarlyExit
       ELSE \E ok \in BOOLEAN :
              IF ok THEN ret' = ret /\ pc' = "plan"
              ELSE ret' = "NOMEM" /\ pc' = EarlyExit
    /\ UNCHANGED <<img, cmd, extract_flags, args_flags, vol, out_refcnt,
                   extracted_file, lte_dentry_list, needs_extraction,
                   i_visited, i_extracted, stream_list, progress,
                   next_progress, pos, trace, planned, writeVars>>

\* find_streams_for_extraction() and calculate_bytes_to_extract(),
\* lines 497-504
Plan ==
    /\ pc = "plan"
    /\ LET st == find_streams_for_extraction(cmd.root,
                    [out_refcnt |-> out_refcnt, i_visited |-> i_visited,
                     lte_dentry_list |-> lte_dentry_list,
                     stream_list |-> <<>>,
                     needs_extraction |-> needs_extraction],
                    extract_flags)
       IN /\ out_refcnt' = st.out_refcnt
          /\ i_visited' = st.i_visited
          /\ lte_dentry_list' = st.lte_dentry_list
          /\ stream_list' = st.stream_list
          /\ planned' = st.stream_list
          /\ needs_extraction' = st.needs_extraction
          /\ progress' = calculate_bytes_to_extract(st.stream_list,
                             extract_flags, st.out_refcnt, extracted_file)
    /\ pc' = "planned"
    /\ UNCHANGED <<img, cmd, ret, extract_flags, args_flags, vol,
                   extracted_file, i_extracted, next_progress, pos, trace,
                   writeVars>>

\* an exit that skips the reset of the dentries
SkipReset == "out_ntfs_umount"
\* extract_tree(): the goto that follows extract_dentry_to_stdout(), line 508
AfterStdout == "out_dentry_reset_needs_extraction"

\* extract_dentry_to_stdout(), lines 385-403 and 506-509
ExtractToStdout ==
    /\ pc = "planned"
    /\ "TO_STDOUT" \in extract_flags
    /\ LET lte == inode_unnamed_lte_resolved(d_inode(cmd.root))
       IN IF dentry_is_directory(cmd.root)
          THEN ret' = "NOT_A_REGULAR_FILE" /\ trace' = trace
          ELSE IF lte = NULL THEN ret' = "OK" /\ trace' = trace
          ELSE \E ok \in BOOLEAN :
                 IF ok
                 THEN /\ ret' = "OK"
                      /\ trace' = trace \o <<Ev("read", lte, "stdout"),
                                             Ev("stdout", lte, "stdout")>>
                 ELSE ret' = "WRITE" /\ trace' = trace
    /\ pc' = AfterStdout
    /\ UNCHANGED <<img, cmd, extract_flags, args_flags, vol, out_refcnt,
                   extracted_file, lte_dentry_list, needs_extraction,
                   i_visited, i_extracted, stream_list, progress,
                   next_progress, pos, planned, writeVars>>

\* lines 511-535: the BEGIN message, the sort of a sequential extraction,
\* the DIR_STRUCTURE_BEGIN message, NO_STREAMS set for the first walk
BeginExtract ==
    /\ pc = "planned"
    /\ "TO_STDOUT" \notin extract_flags
    /\ \E alloc \in BOOLEAN :
         IF "SEQUENTIAL" \in extract_flags
         THEN \E r \in sort_stream_list_by_wim_position(stream_list, alloc) :
                 /\ stream_list' = r.list
                 /\ extract_flags' = IF r.ret = "OK" THEN extract_flags
                                     ELSE extract_flags \ {"SEQUENTIAL"}
         ELSE stream_list' = stream_list /\ extract_flags' = extract_flags
    /\ trace' = Emit(Emit(trace, BeginMessage(cmd.path_empty), 0),
                     "EXTRACT_DIR_STRUCTURE_BEGIN", 0)
    /\ args_flags' = args_flags \cup {"NO_STREAMS"}
    /\ pos' = [pos EXCEPT !.idx = 1]
    /\ pc' = "phaseA"
    /\ UNCHANGED <<img, cmd, ret, vol, out_refcnt, extracted_file,
                   lte_dentry_list, needs_extraction, i_visited, i_extracted,
                   progress, next_progress, planned, writeVars>>

\* one visit of for_dentry_in_tree(root, maybe_apply_dentry), line 536
PhaseAStep ==
    /\ pc = "phaseA"
    /\ pos.idx <= Len(PreOrder(cmd.root))
    /\ \E ok \in BOOLEAN :
         LET r == maybe_apply_dentry(PreOrder(cmd.root)[pos.idx], ok,
                                     ApplyState)
         IN /\ SetApplyState(r.st)
            /\ ret' = r.ret
            /\ IF r.ret = "OK"
               THEN /\ pos' = [pos EXCEPT !.idx = @ + 1]
                    /\ pc' = pc
                    /\ args_flags' = args_flags
               ELSE /\ pos' = pos
                    /\ pc' = "out_dentry_reset_needs_extraction"
                    /\ args_flags' = args_flags \ {"NO_STREAMS"}
    /\ UNCHANGED <<img, cmd, extract_flags, vol, out_refcnt, lte_dentry_list,
                   i_visited, stream_list, next_progress, planned, writeVars>>

\* lines 537-556: NO_STREAMS cleared, the DIR_STRUCTURE_END message,
\* realpath() of the target for reparse-point fixups, and the locals of
\* apply_stream_list()
EndDirStructure ==
    /\ pc = "phaseA"
    /\ pos.idx > Len(PreOrder(cmd.root))
    /\ args_flags' = args_flags \ {"NO_STREAMS"}
    /\ trace' = Emit(trace, "EXTRACT_DIR_STRUCTURE_END", 0)
    /\ \E ok \in BOOLEAN :
         IF "RPFIX" \in extract_flags /\ ~ok
         THEN /\ ret' = "NOMEM"
              /\ pc' = "out_dentry_reset_needs_extraction"
         ELSE ret' = ret /\ pc' = "phaseB"
    /\ next_progress' = progress.total_bytes \div 100
    /\ pos' = [pos EXCEPT !.li = 0, !.di = 0]
    /\ UNCHANGED <<img, cmd, extract_flags, vol, out_refcnt, extracted_file,
                   lte_dentry_list, needs_extraction, i_visited, i_extracted,
                   stream_list, progress, planned, writeVars>>

\* the dentry list the inner loop of apply_stream_list() walks
CurrentList ==
    IF pos.li \in 1..Len(stream_list)
    THEN lte_dentry_list[stream_list[pos.li]] ELSE <<>>

\* apply_stream_list(), the outer loop: the next descriptor of the list
PhaseBNextStream ==
    /\ pc = "phaseB"
    /\ pos.di >= Len(CurrentList)
    /\ pos.li < Len(stream_list)
    /\ pos' = [pos EXCEPT !.li = @ + 1, !.di = 0]
    /\ trace' = Append(trace, Ev("visit", stream_list[pos.li + 1], "B"))
    /\ UNCHANGED <<img, cmd, pc, ret, extract_flags, args_flags, vol,
                   out_refcnt, extracted_file, lte_dentry_list,
                   needs_extraction, i_visited, i_extracted, stream_list,
                   progress, next_progress, planned, writeVars>>

\* a progress step that goes on reporting after every byte was reported
ProgressWithoutEnd(x, next) ==
    IF cmd.progress /\ next # NoMoreProgress
       /\ x.progress.completed_bytes >= next
    THEN [trace |-> Emit(x.trace, "EXTRACT_STREAMS",
                         x.progress.completed_bytes),
          next  |-> Min(x.progress.completed_bytes
                          + x.progress.total_bytes \div 100,
                        x.progress.total_bytes)]
    ELSE [trace |-> x.trace, next |-> next]

\* lines 323-338: the EXTRACT_STREAMS message and the next threshold;
\* x holds trace and progress, the result adds next_progress
StreamsProgress(x, next) ==
    IF cmd.progress /\ next # NoMoreProgress
       /\ x.progress.completed_bytes >= next
    THEN [trace |-> Emit(x.trace, "EXTRACT_STREAMS",
                         x.progress.completed_bytes),
          next  |-> IF x.progress.completed_bytes >= x.progress.total_bytes
                    THEN NoMoreProgress
                    ELSE Min(x.progress.completed_bytes
                               + x.progress.total_bytes \div 100,
                             x.progress.total_bytes)]
    ELSE [trace |-> x.trace, next |-> next]

\* apply_stream_list(), the inner loop: the next dentry of the descriptor
PhaseBDentry ==
    /\ pc = "phaseB"
    /\ pos.di < Len(CurrentList)
    /\ \E ok \in BOOLEAN :
         LET r == maybe_apply_dentry(CurrentList[pos.di + 1], ok, ApplyState)
             p == StreamsProgress(r.st, next_progress)
         IN /\ ret' = r.ret
            /\ IF r.ret = "OK"
               THEN /\ SetApplyState([r.st EXCEPT !.trace = p.trace])
                    /\ next_progress' = p.next
                    /\ pos' = [pos EXCEPT !.di = @ + 1]
                    /\ pc' = pc
               ELSE /\ SetApplyState(r.st)
                    /\ next_progress' = next_progress
                    /\ pos' = pos
                    /\ pc' = "out_free_target_realpath"
    /\ UNCHANGED <<img, cmd, extract_flags, args_flags, vol, out_refcnt,
                   lte_dentry_list, i_visited, stream_list, planned,
                   writeVars>>

\* timestamps applied from the root downwards
TopDownOrder(root) == PreOrder(root)
\* the order in which the timestamps are applied, lines 566-567
TimestampOrder(root) == PostOrder(root)

\* lines 560-563: apply_stream_list() returned 0
BeginTimestamps ==
    /\ pc = "phaseB"
    /\ pos.di >= Len(CurrentList)
    /\ pos.li >= Len(stream_list)
    /\ trace' = Emit(trace, "APPLY_TIMESTAMPS", 0)
    /\ pos' = [pos EXCEPT !.idx = 1]
    /\ pc' = "phaseC"
    /\ UNCHANGED <<img, cmd, ret, extract_flags, args_flags, vol, out_refcnt,
                   extracted_file, lte_dentry_list, needs_extraction,
                   i_visited, i_extracted, stream_list, progress,
                   next_progress, planned, writeVars>>

\* one visit of for_dentry_in_tree_depth(root, apply_dentry_timestamps)
PhaseCStep ==
    /\ pc = "phaseC"
    /\ pos.idx <= Len(TimestampOrder(cmd.root))
    /\ \E ok \in BOOLEAN :
         IF ok
         THEN /\ trace' = Append(trace,
                    Ev("apply_dentry_timestamps",
                       TimestampOrder(cmd.root)[pos.idx], "C"))
              /\ pos' = [pos EXCEPT !.idx = @ + 1]
              /\ pc' = pc
              /\ ret' = ret
         ELSE /\ trace' = trace
              /\ pos' = pos
              /\ pc' = "out_free_target_realpath"
              /\ ret' = "WRITE"
    /\ UNCHANGED <<img, cmd, extract_flags, args_flags, vol, out_refcnt,
                   extracted_file, lte_dentry_list, needs_extraction,
                   i_visited, i_extracted, stream_list, progress,
                   next_progress, planned, writeVars>>

\* lines 571-575: the END message
EndExtract ==
    /\ pc = "phaseC"
    /\ pos.idx > Len(TimestampOrder(cmd.root))
    /\ trace' = Emit(trace, EndMessage(cmd.path_empty), 0)
    /\ pc' = "out_free_target_realpath"
    /\ UNCHANGED <<img, cmd, ret, extract_flags, args_flags, vol, out_refcnt,
                   extracted_file, lte_dentry_list, needs_extraction,
                   i_visited, i_extracted, stream_list, progress,
                   next_progress, pos, planned, writeVars>>

\* a cleanup that leaves the flags as they are
NoReset(seq, i, x) == x
RECURSIVE ResetWalk(_, _, _)
\* dentry_reset_needs_extraction() over the dentries seq[i..];
\* x holds needs_extraction and i_visited
ResetWalk(seq, i, x) ==
    IF i > Len(seq) THEN x
    ELSE ResetWalk(seq, i + 1,
            [needs_extraction |-> [x.needs_extraction EXCEPT ![seq[i]] = 0],
             i_visited |-> [x.i_visited EXCEPT ![d_inode(seq[i])] = 0]])

\* a cleanup that zeroes the out_refcnt of every descriptor
CleanupZeroesRefcnts(rc) == [s \in Streams |-> 0]

\* dentry_reset_needs_extraction() resets the two flags of a dentry and
\* nothing of the stream descriptors, lines 268-274
RefcntsAfterCleanup(rc) == rc

\* out_free_target_realpath and out_dentry_reset_needs_extraction,
\* lines 576-579
ResetNeedsExtraction ==
    /\ pc \in {"out_free_target_realpath", "out_dentry_reset_needs_extraction"}
    /\ LET x == ResetWalk(PreOrder(cmd.root), 1,
                    [needs_extraction |-> needs_extraction,
                     i_visited |-> i_visited])
       IN /\ needs_extraction' = x.needs_extraction
          /\ i_visited' = x.i_visited
    /\ out_refcnt' = RefcntsAfterCleanup(out_refcnt)
    /\ pc' = "out_ntfs_umount"
    /\ UNCHANGED <<img, cmd, ret, extract_flags, args_flags, vol,
                   extracted_file, lte_dentry_list, i_extracted, stream_list,
                   progress, next_progress, pos, trace, planned, writeVars>>

\* ret after ntfs_umount(), lines 584-589
RetAfterUmount(r, ok) == IF ~ok /\ r = "OK" THEN "NTFS_3G" ELSE r

\* out_ntfs_umount, lines 580-593
NtfsUmount ==
    /\ pc = "out_ntfs_umount"
    /\ IF "NTFS" \in extract_flags
       THEN \E ok \in BOOLEAN :
              /\ vol' = "unmounted"
              /\ trace' = Append(trace,
                     Ev("ntfs_umount", IF ok THEN 1 ELSE 0, "call"))
              /\ ret' = RetAfterUmount(ret, ok)
       ELSE UNCHANGED <<vol, trace, ret>>
    /\ pc' = "out"
    /\ UNCHANGED <<img, cmd, extract_flags, args_flags, out_refcnt,
                   extracted_file, lte_dentry_list, needs_extraction,
                   i_visited, i_extracted, stream_list, progress,
                   next_progress, pos, planned, writeVars>>

ExtractNext ==
    \/ MountVolume
    \/ GetDentry
    \/ Plan
    \/ ExtractToStdout
    \/ BeginExtract
    \/ PhaseAStep
    \/ EndDirStructure
    \/ PhaseBNextStream
    \/ PhaseBDentry
    \/ BeginTimestamps
    \/ PhaseCStep
    \/ EndExtract
    \/ ResetNeedsExtraction
    \/ NtfsUmount

(***************************************************************************)
(* The writer (write.c).  A file is a header (offsets 0 up to              *)
(* WIM_HEADER_DISK_SIZE) followed by data bytes; data[i] is the byte at    *)
(* offset WIM_HEADER_DISK_SIZE + i - 1.  A byte is a record [k, v] naming  *)
(* what wrote it: a file resource or metadata resource of image v, the     *)
(* lookup table, XML data of version v, an integrity table covering the    *)
(* bytes up to offset v.                                                   *)
(***************************************************************************)
NumImages == 2
MaxXml == 2
MaxCalls == 2
WIM_HEADER_DISK_SIZE == 208
WIM_ALL_IMAGES == -1
CHECK_INTEGRITY == "CHECK_INTEGRITY"

ImageIds == 1..NumImages
Byte(k, v) == [k |-> k, v |-> v]
Entry(o, s) == [offset |-> o, size |-> s]
ZeroEntry == Entry(0, 0)

\* struct wim_header: the fields write.c reads or writes
Header(lt, xml, integ, boot, bi, ic) ==
    [lookup_table_res_entry |-> lt, xml_res_entry |-> xml, integrity |-> integ,
     boot_metadata_res_entry |-> boot, boot_idx |-> bi, image_count |-> ic]
\* the header area of a file into which no header was written
NoHeader == Header(ZeroEntry, ZeroEntry, ZeroEntry, ZeroEntry, 0, 0)

File(h, d) == [exists |-> TRUE, hdr |-> h, data |-> d]
NoFile == [exists |-> FALSE, hdr |-> NoHeader, data |-> <<>>]

\* w->filename
OrigFile == "orig"
\* a mistaken temporary name: the archive itself
InPlaceFile == OrigFile
\* wimlib_overwrite(): tmpfile is w->filename followed by 9 random
\* alphanumeric characters, so it differs from w->filename
TmpFile == "tmp"
\* the path given to a direct wimlib_write() call
OutFile == "out"
Paths == {OrigFile, TmpFile, OutFile}

\* the offset just behind the last byte of the data
EndOffset(data) == WIM_HEADER_DISK_SIZE + Len(data)

\* fwrite() of bytes at offset off: overwrites in place and extends the file
WriteAt(data, off, bytes) ==
    LET at == off - WIM_HEADER_DISK_SIZE
        padded == IF at <= Len(data) THEN data
                  ELSE data \o [i \in 1..(at - Len(data)) |-> Byte("hole", 0)]
        stop == at + Len(bytes)
    IN SubSeq(padded, 1, at) \o bytes
         \o (IF stop < Len(padded) THEN SubSeq(padded, stop + 1, Len(padded))
             ELSE <<>>)

\* the bytes at offsets off .. off + size - 1; short when the file ends
ReadAt(data, off, size) ==
    LET at == off - WIM_HEADER_DISK_SIZE
    IN SubSeq(data, at + 1, IF at + size <= Len(data) THEN at + size
                            ELSE Len(data))

\* an ftruncate() that leaves the file as long as it is
NoTruncate(data, off) == data

\* ftruncate() to length off
Truncate(data, off) ==
    LET n == off - WIM_HEADER_DISK_SIZE
    IN IF n <= Len(data) THEN SubSeq(data, 1, n)
       ELSE data \o [i \in 1..(n - Len(data)) |-> Byte("hole", 0)]

\* for_image(): the images selected by `image`, in image order
SelectedImages(image) ==
    IF image = WIM_ALL_IMAGES THEN [i \in 1..NumImages |-> i] ELSE <<image>>
\* one byte of kind k for every selected image
ResourceBytes(k, image) ==
    [j \in 1..Len(SelectedImages(image)) |-> Byte(k, SelectedImages(image)[j])]
\* write_xml_data(): the XML of wim_info version v is v bytes long
XmlData(v) == [i \in 1..v |-> Byte("xml", v)]
\* write_lookup_table()
LookupTableData == <<Byte("lt", 0)>>
\* write_integrity_table(out, start, end): a table of the bytes before end
IntegrityData(end) == <<Byte("integ", end)>>

\* the archive as a complete wimlib_write() lays it out
ArchiveData(xmlv, integ) ==
    LET body == ResourceBytes("file", WIM_ALL_IMAGES)
                  \o ResourceBytes("meta", WIM_ALL_IMAGES)
                  \o LookupTableData
    IN body \o XmlData(xmlv)
         \o (IF integ THEN IntegrityData(EndOffset(body)) ELSE <<>>)
\* the output resource entry of image i's metadata in that layout
MetadataEntry(i) == Entry(WIM_HEADER_DISK_SIZE + NumImages + i - 1, 1)
ArchiveHeader(xmlv, integ, bi) ==
    LET L == WIM_HEADER_DISK_SIZE + 2 * NumImages
    IN Header(Entry(L, 1), Entry(L + 1, xmlv),
              IF integ THEN Entry(L + 1 + xmlv, 1) ELSE ZeroEntry,
              IF bi = 0 THEN ZeroEntry ELSE MetadataEntry(bi),
              bi, NumImages)

Ret == {"OK", "NO_FILENAME", "INVALID_IMAGE", "OPEN", "WRITE", "READ",
        "NOMEM", "RENAME"}
WEv(e, x) == [ev |-> e, x |-> x]

\* the locals of the writer call in progress
NoCall ==
    [op |-> "none", flags |-> {}, image |-> WIM_ALL_IMAGES, path |-> OrigFile,
     ret |-> "OK", position |-> 0, orig0 |-> NoFile, renamed |-> FALSE,
     lookup_table_offset |-> 0, xml_data_offset |-> 0, hdr |-> NoHeader,
     integrity_table |-> <<>>, faults |-> 0]

WriteIdle ==
    /\ wim = [filename |-> FALSE, fp |-> "null", out_fp |-> "null",
              hdr |-> NoHeader, wim_info |-> 1,
              meta_out |-> [i \in ImageIds |-> ZeroEntry]]
    /\ fs = [p \in Paths |-> NoFile]
    /\ wpc = "idle"
    /\ call = NoCall
    /\ wtrace = <<>>
    /\ log = <<>>

\* a WIMStruct opened from the archive at OrigFile (w->fp open for reading,
\* w->hdr as read from the file), or a new one without a file; wim_info may
\* have been edited since
WriteInit ==
    /\ \E xmlv \in 1..MaxXml, integ \in BOOLEAN, bi \in 0..NumImages,
          named \in BOOLEAN, info \in 1..MaxXml :
          /\ wim = [filename |-> named,
                    fp |-> IF named THEN "open" ELSE "null",
                    out_fp |-> "null",
                    hdr |-> ArchiveHeader(xmlv, integ, bi),
                    wim_info |-> info,
                    meta_out |-> [i \in ImageIds |-> ZeroEntry]]
          /\ fs = [p \in Paths |->
                     IF p = OrigFile /\ named
                     THEN File(ArchiveHeader(xmlv, integ, bi),
                               ArchiveData(xmlv, integ))
                     ELSE NoFile]
    /\ wpc = "idle"
    /\ call = NoCall
    /\ wtrace = <<>>
    /\ log = <<>>

(***************************************************************************)
(* The writer's steps.  Every library or system call that can fail is      *)
(* given both outcomes; call.faults counts the failures of the             *)
(* environment in the current call.                                        *)
(***************************************************************************)
SetFile(path, f) == [fs EXCEPT ![path] = f]
SetData(path, d) == [fs EXCEPT ![path].data = d]
Fail(c, r) == [c EXCEPT !.ret = r, !.faults = @ + 1]
InCall == wpc \notin {"idle", "return", "crashed"}
\* what the history keeps of a call c that returned or died
LogEntry(c, crashed) ==
    [op |-> c.op, flags |-> c.flags, ret |-> c.ret,
     after |-> fs[OrigFile], faults |-> c.faults, crashed |-> crashed]

\* an API function is entered when the previous call has returned 0; a
\* direct wimlib_write() is the only call of its behaviour
Callable ==
    /\ wpc = "idle"
    /\ Len(log) < MaxCalls
    /\ \A i \in 1..Len(log) : log[i].ret = "OK" /\ log[i].op # "write"
NewCall(op, flags, image, path) ==
    [NoCall EXCEPT !.op = op, !.flags = flags, !.image = image,
                   !.path = path, !.orig0 = fs[OrigFile]]

\* wimlib_write(), lines 404-406
InvalidImage(image, hdr) ==
    image # WIM_ALL_IMAGES /\ (image < 1 \/ image > hdr.image_count)

\* wimlib_write(w, OutFile, image, flags) is called, lines 400-411
CallWrite ==
    /\ Callable
    /\ Len(log) = 0
    /\ \E flags \in SUBSET {CHECK_INTEGRITY},
          image \in {WIM_ALL_IMAGES} \cup 0..(NumImages + 1) :
          LET c == NewCall("write", flags, image, OutFile)
          IN IF InvalidImage(image, wim.hdr)
             THEN /\ call' = [c EXCEPT !.ret = "INVALID_IMAGE"]
                  /\ wpc' = "return"
             ELSE /\ call' = c
                  /\ wpc' = "begin_write"
    /\ wtrace' = <<>>
    /\ UNCHANGED <<wim, fs, log, extractVars>>

\* wimlib_overwrite(w, flags) is called, lines 57-78
CallOverwrite ==
    /\ Callable
    /\ \E flags \in SUBSET {CHECK_INTEGRITY} :
          LET c == NewCall("overwrite", flags, WIM_ALL_IMAGES, TmpFile)
          IN IF ~wim.filename
             THEN /\ call' = [c EXCEPT !.ret = "NO_FILENAME"]
                  /\ wpc' = "return"
             ELSE /\ call' = c
                  /\ wpc' = "begin_write"
    /\ wtrace' = <<>>
    /\ UNCHANGED <<wim, fs, log, extractVars>>

\* a failure that returns without closing the output
ReturnDirectly == "return"
\* wimlib_write(): goto done after a failed step, lines 415, 422 and 429
GotoDone == "done"

\* begin_write() and zero_out_refcnts, lines 375-397 and 413-417
BeginWrite ==
    /\ wpc = "begin_write"
    /\ \E opened, wrote \in BOOLEAN :
          LET mode == IF CHECK_INTEGRITY \in call.flags THEN "w+b" ELSE "wb"
          IN IF ~opened
             THEN /\ call' = Fail(call, "OPEN")
                  /\ wpc' = GotoDone
                  /\ wtrace' = Append(wtrace, WEv("open_failed", 0))
                  /\ UNCHANGED <<wim, fs>>
             ELSE /\ wim' = [wim EXCEPT !.out_fp = mode]
                  /\ IF ~wrote
                     THEN /\ fs' = SetFile(call.path, File(NoHeader, <<>>))
                          /\ call' = Fail(call, "WRITE")
                          /\ wpc' = GotoDone
                          /\ wtrace' = Append(wtrace, WEv("open", 0))
                     ELSE /\ fs' = SetFile(call.path, File(wim.hdr, <<>>))
                          /\ call' = [call EXCEPT
                                        !.position = WIM_HEADER_DISK_SIZE]
                          /\ wpc' = "file_resources"
                          /\ wtrace' = wtrace \o
                                <<WEv("open", 0), WEv("placeholder_header", 0),
                                  WEv("zero_out_refcnts", 0)>>
    /\ UNCHANGED <<log, extractVars>>

\* fwrite() of the first n of bytes at the file position of w->out_fp or w->fp
WriteBytes(path, bytes, n) ==
    SetData(path, WriteAt(fs[path].data, call.position, SubSeq(bytes, 1, n)))

\* for_image(w, image, write_file_resources), lines 419-423
WriteFileResources ==
    /\ wpc = "file_resources"
    /\ LET bytes == ResourceBytes("file", call.image)
       IN \E n \in 0..Len(bytes) :
             /\ fs' = WriteBytes(call.path, bytes, n)
             /\ IF n < Len(bytes)
                THEN /\ call' = [Fail(call, "WRITE") EXCEPT !.position = @ + n]
                     /\ wpc' = GotoDone
                     /\ wtrace' = Append(wtrace, WEv("file_resources_failed", n))
                ELSE /\ call' = [call EXCEPT !.position = @ + n]
                     /\ wpc' = "metadata"
                     /\ wtrace' = Append(wtrace, WEv("file_resources", n))
    /\ UNCHANGED <<wim, log, extractVars>>

\* for_image(w, image, write_metadata_resource), lines 425-430; the
\* resource entry of each metadata stream written is kept for the header
WriteMetadata ==
    /\ wpc = "metadata"
    /\ LET bytes == ResourceBytes("meta", call.image)
       IN \E n \in 0..Len(bytes) :
             /\ fs' = WriteBytes(call.path, bytes, n)
             /\ wim' = [wim EXCEPT !.meta_out =
                          [i \in ImageIds |->
                             IF \E j \in 1..n : bytes[j].v = i
                             THEN Entry(call.position - 1
                                        + (CHOOSE j \in 1..n : bytes[j].v = i), 1)
                             ELSE wim.meta_out[i]]]
             /\ IF n < Len(bytes)
                THEN /\ call' = [Fail(call, "WRITE") EXCEPT !.position = @ + n]
                     /\ wpc' = GotoDone
                     /\ wtrace' = Append(wtrace, WEv("metadata_failed", n))
                ELSE /\ call' = [call EXCEPT !.position = @ + n]
                     /\ wpc' = "lookup_table"
                     /\ wtrace' = Append(wtrace, WEv("metadata", n))
    /\ UNCHANGED <<log, extractVars>>

\* wimlib_write() calls finish_write(w, image, flags, 1), line 432
write_lt == 1
\* wim_info_get_total_bytes(): the size of the archive's resources
wim_info_get_total_bytes == 2 * NumImages
\* a hint that is given when the lookup table is written
HintWithLookupTable(wlt) == IF wlt # 0 THEN wim_info_get_total_bytes ELSE 0
\* the total-bytes hint given to write_xml_data(), lines 303-304
XmlHint(wlt) == IF wlt # 0 THEN 0 ELSE wim_info_get_total_bytes

\* finish_write(): the lookup table, lines 272-282
WriteLookupTable ==
    /\ wpc = "lookup_table"
    /\ IF write_lt # 0
       THEN \E ok \in BOOLEAN :
               IF ok
               THEN /\ fs' = WriteBytes(call.path, LookupTableData, 1)
                    /\ call' = [call EXCEPT
                                  !.lookup_table_offset = call.position,
                                  !.position = @ + 1]
                    /\ wpc' = "xml"
                    /\ wtrace' = Append(wtrace, WEv("lookup_table", call.position))
               ELSE /\ call' = Fail(call, "WRITE")
                    /\ wpc' = "done"
                    /\ wtrace' = Append(wtrace, WEv("lookup_table_failed", 0))
                    /\ UNCHANGED fs
       ELSE /\ wpc' = "xml"
            /\ UNCHANGED <<fs, call, wtrace>>
    /\ UNCHANGED <<wim, log, extractVars>>

\* a lookup table entry whose size is the offset of the XML data
SizeIsEndOffset(hdr, wlt, lookup_table_offset, xml_data_offset) ==
    IF wlt # 0
    THEN [hdr EXCEPT !.lookup_table_res_entry =
            Entry(lookup_table_offset, xml_data_offset)]
    ELSE hdr
\* finish_write(): hdr is w->hdr with the lookup table entry set,
\* lines 294-301
HeaderWithLookupTable(hdr, wlt, lookup_table_offset, xml_data_offset) ==
    IF wlt # 0
    THEN [hdr EXCEPT !.lookup_table_res_entry =
            Entry(lookup_table_offset, xml_data_offset - lookup_table_offset)]
    ELSE hdr

\* finish_write(): the XML data and its entry, lines 285-316
WriteXml ==
    /\ wpc = "xml"
    /\ LET bytes == XmlData(wim.wim_info)
           xml_data_offset == call.position
           hdr == HeaderWithLookupTable(wim.hdr, write_lt,
                                        call.lookup_table_offset,
                                        xml_data_offset)
       IN \E n \in 0..Len(bytes) :
             /\ fs' = WriteBytes(call.path, bytes, n)
             /\ IF n < Len(bytes)
                THEN /\ call' = [Fail(call, "WRITE") EXCEPT
                                   !.position = @ + n,
                                   !.xml_data_offset = xml_data_offset,
                                   !.hdr = hdr]
                     /\ wpc' = "done"
                     /\ wtrace' = Append(wtrace, WEv("xml_failed", XmlHint(write_lt)))
                ELSE /\ call' = [call EXCEPT
                                   !.position = @ + n,
                                   !.xml_data_offset = xml_data_offset,
                                   !.hdr = [hdr EXCEPT !.xml_res_entry =
                                              Entry(xml_data_offset, n)]]
                     /\ wpc' = "integrity"
                     /\ wtrace' = Append(wtrace, WEv("xml", XmlHint(write_lt)))
    /\ UNCHANGED <<wim, log, extractVars>>

\* finish_write(): the integrity table and its entry, lines 318-336
WriteIntegrity ==
    /\ wpc = "integrity"
    /\ IF CHECK_INTEGRITY \in call.flags
       THEN \E ok \in BOOLEAN :
               IF ok
               THEN /\ fs' = WriteBytes(call.path,
                                        IntegrityData(call.xml_data_offset), 1)
                    /\ call' = [call EXCEPT
                                  !.hdr.integrity = Entry(call.position, 1),
                                  !.position = @ + 1]
                    /\ wpc' = "header"
                    /\ wtrace' = Append(wtrace, WEv("integrity", call.position))
               ELSE /\ call' = Fail(call, "WRITE")
                    /\ wpc' = "done"
                    /\ wtrace' = Append(wtrace, WEv("integrity_failed", 0))
                    /\ UNCHANGED fs
       ELSE /\ call' = [call EXCEPT !.hdr.integrity = ZeroEntry]
            /\ wpc' = "header"
            /\ UNCHANGED <<fs, wtrace>>
    /\ UNCHANGED <<wim, log, extractVars>>

\* finish_write(): boot metadata entry, lines 347-356
WithBootMetadata(hdr, image, meta_out) ==
    IF hdr.boot_idx = 0 \/ (image # WIM_ALL_IMAGES /\ image # hdr.boot_idx)
    THEN [hdr EXCEPT !.boot_metadata_res_entry = ZeroEntry]
    ELSE [hdr EXCEPT !.boot_metadata_res_entry = meta_out[hdr.boot_idx]]

\* a header that keeps the image count and boot index of the archive
KeepImageCount(hdr, image) == hdr
\* finish_write(): image count and boot index of a single image, lines 359-365
WithImageCount(hdr, image) ==
    IF image # WIM_ALL_IMAGES
    THEN [hdr EXCEPT !.image_count = 1,
                     !.boot_idx = IF hdr.boot_idx = image THEN 1 ELSE 0]
    ELSE hdr

\* finish_write(): seek to 0 and write the header, lines 338-371
WriteFinalHeader ==
    /\ wpc = "header"
    /\ LET hdr == WithImageCount(
                     WithBootMetadata(call.hdr, call.image, wim.meta_out),
                     call.image)
       IN \E ok \in BOOLEAN :
             IF ok
             THEN /\ fs' = [fs EXCEPT ![call.path].hdr = hdr]
                  /\ call' = [call EXCEPT !.hdr = hdr, !.position = WIM_HEADER_DISK_SIZE]
                  /\ wtrace' = Append(wtrace, WEv("final_header", 0))
             ELSE /\ call' = [Fail(call, "WRITE") EXCEPT !.hdr = hdr]
                  /\ wtrace' = Append(wtrace, WEv("final_header_failed", 0))
                  /\ UNCHANGED fs
    /\ wpc' = "done"
    /\ UNCHANGED <<wim, log, extractVars>>

\* wimlib_write(): the label done, lines 434-443
CloseOutput ==
    /\ wpc = "done"
    /\ IF wim.out_fp # "null"
       THEN \E ok \in BOOLEAN :
               /\ call' = IF ok THEN call ELSE Fail(call, "WRITE")
               /\ wtrace' = Append(wtrace, WEv("close_out", IF ok THEN 1 ELSE 0))
       ELSE UNCHANGED <<call, wtrace>>
    /\ wim' = [wim EXCEPT !.out_fp = "null"]
    /\ wpc' = IF call.op = "overwrite" THEN "written" ELSE "return"
    /\ UNCHANGED <<fs, log, extractVars>>

\* a wimlib_write() result that is never taken for an error
NeverFailed(r) == FALSE
\* wimlib_overwrite(): is the result of wimlib_write() an error, lines 79-82
WriteFailed(r) == r # "OK"

\* a failed write after which the temporary file is removed
UnlinkAfterFailedWrite(files, path) == [files EXCEPT ![path] = NoFile]

\* wimlib_overwrite(): when wimlib_write() has failed the call returns and
\* leaves the files as they are, lines 78-82
FilesAfterFailedWrite(files, path) == files

\* wimlib_overwrite(): after wimlib_write(), lines 79-92; fclose() of a
\* stream that was closed before is undefined: it returns or the process dies
CloseOriginal ==
    /\ wpc = "written"
    /\ IF WriteFailed(call.ret)
       THEN /\ wpc' = "return"
            /\ fs' = FilesAfterFailedWrite(fs, call.path)
            /\ UNCHANGED <<wim, wtrace, log>>
       ELSE /\ fs' = fs
            /\ \/ /\ wim' = [wim EXCEPT !.fp = "null"]
                  /\ wtrace' = wtrace \o (IF wim.fp # "null"
                                          THEN <<WEv("close_orig", 0)>> ELSE <<>>)
                  /\ wpc' = "rename"
                  /\ UNCHANGED log
               \/ /\ wim.fp = "closed"
                  /\ wpc' = "crashed"
                  /\ log' = Append(log, LogEntry(call, TRUE))
                  /\ UNCHANGED <<wim, wtrace>>
    /\ UNCHANGED <<call, extractVars>>

\* wimlib_overwrite(): rename() and unlink(), lines 94-106
RenameTemporary ==
    /\ wpc = "rename"
    /\ \E renamed, unlinked \in BOOLEAN :
          IF renamed
          THEN /\ fs' = [fs EXCEPT ![OrigFile] = fs[call.path],
                                   ![call.path] = IF call.path = OrigFile
                                                  THEN fs[call.path] ELSE NoFile]
               /\ call' = [call EXCEPT !.renamed = TRUE, !.ret = "OK"]
               /\ wtrace' = Append(wtrace, WEv("rename", 1))
          ELSE /\ fs' = IF unlinked THEN SetFile(call.path, NoFile) ELSE fs
               /\ call' = [Fail(call, "RENAME") EXCEPT
                             !.faults = @ + (IF unlinked THEN 0 ELSE 1)]
               /\ wtrace' = wtrace \o <<WEv("rename", 0),
                                        WEv("unlink", IF unlinked THEN 1 ELSE 0)>>
    /\ wpc' = "return"
    /\ UNCHANGED <<wim, log, extractVars>>

\* wimlib_overwrite_xml_and_header(w, flags) is called, lines 110-122
CallOverwriteXmlAndHeader ==
    /\ Callable
    /\ \E flags \in SUBSET {CHECK_INTEGRITY} :
          LET c == NewCall("xml", flags, WIM_ALL_IMAGES, OrigFile)
          IN IF ~wim.filename
             THEN /\ call' = [c EXCEPT !.ret = "NO_FILENAME"]
                  /\ wpc' = "return"
             ELSE /\ call' = c
                  /\ wpc' = "reopen_rw"
    /\ wtrace' = <<>>
    /\ UNCHANGED <<wim, fs, log, extractVars>>

\* fclose(fp): defined for an open stream only
FcloseDefined(fp) == fp = "open"

\* reopen_rw(), lines 36-50 and 124-128: fclose(w->fp) of a null or an
\* already closed stream is undefined (it returns, or the process dies);
\* when fopen() fails w->fp keeps pointing to the closed stream
ReopenRw ==
    /\ wpc = "reopen_rw"
    /\ \/ /\ ~FcloseDefined(wim.fp)
          /\ wpc' = "crashed"
          /\ log' = Append(log, LogEntry(call, TRUE))
          /\ wtrace' = Append(wtrace, WEv("fclose_undefined", 0))
          /\ UNCHANGED <<wim, call>>
       \/ \E opened \in BOOLEAN :
             /\ opened => fs[OrigFile].exists
             /\ wtrace' = wtrace \o
                   (IF FcloseDefined(wim.fp) THEN <<>>
                    ELSE <<WEv("fclose_undefined", 0)>>)
                   \o <<WEv("reopen", IF opened THEN 1 ELSE 0)>>
             /\ IF opened
                THEN /\ wim' = [wim EXCEPT !.fp = "open"]
                     /\ call' = call
                     /\ wpc' = "read_integrity"
                ELSE /\ wim' = [wim EXCEPT !.fp = "closed"]
                     /\ call' = Fail(call, "OPEN")
                     /\ wpc' = "return"
             /\ UNCHANGED log
    /\ UNCHANGED <<fs, extractVars>>

\* wimlib_overwrite_xml_and_header() that never saves the old table
NeverSaves(flags, hdr) == FALSE

\* wimlib_overwrite_xml_and_header(): is the old integrity table saved,
\* lines 134-135
SavesIntegrityTable(flags, hdr) ==
    CHECK_INTEGRITY \in flags /\ hdr.integrity.offset # 0

\* wimlib_overwrite_xml_and_header(): read the old table, lines 130-147
ReadIntegrityTable ==
    /\ wpc = "read_integrity"
    /\ IF SavesIntegrityTable(call.flags, wim.hdr)
       THEN LET table == ReadAt(fs[OrigFile].data, wim.hdr.integrity.offset,
                                wim.hdr.integrity.size)
            IN \E outcome \in {"OK", "NOMEM", "READ"} :
                  /\ outcome = "OK" => Len(table) = wim.hdr.integrity.size
                  /\ IF outcome = "OK"
                     THEN /\ call' = [call EXCEPT !.integrity_table = table]
                          /\ wpc' = "overwrite_xml"
                          /\ wtrace' = Append(wtrace, WEv("read_integrity", 1))
                     ELSE /\ call' = Fail(call, outcome)
                          /\ wpc' = "return"
                          /\ wtrace' = Append(wtrace, WEv("read_integrity", 0))
       ELSE /\ wpc' = "overwrite_xml"
            /\ UNCHANGED <<call, wtrace>>
    /\ UNCHANGED <<wim, fs, log, extractVars>>

\* wimlib_overwrite_xml_and_header(): the XML data and its entry,
\* lines 149-170
OverwriteXml ==
    /\ wpc = "overwrite_xml"
    /\ LET bytes == XmlData(wim.wim_info)
           offset == wim.hdr.xml_res_entry.offset
       IN \E n \in 0..Len(bytes) :
             /\ fs' = SetData(OrigFile, WriteAt(fs[OrigFile].data, offset,
                                                SubSeq(bytes, 1, n)))
             /\ IF n < Len(bytes)
                THEN /\ call' = [Fail(call, "WRITE") EXCEPT
                                   !.position = offset + n]
                     /\ wpc' = "return"
                     /\ wtrace' = Append(wtrace, WEv("overwrite_xml_failed", offset))
                     /\ UNCHANGED wim
                ELSE /\ call' = [call EXCEPT !.position = offset + n]
                     /\ wim' = [wim EXCEPT !.hdr.xml_res_entry.size = n]
                     /\ wpc' = "overwrite_integrity"
                     /\ wtrace' = Append(wtrace, WEv("overwrite_xml", offset))
    /\ UNCHANGED <<log, extractVars>>

\* wimlib_overwrite_xml_and_header(): the integrity table or the
\* truncation, lines 172-218; xml_end is the file position
OverwriteIntegrity ==
    /\ wpc = "overwrite_integrity"
    /\ LET xml_end == call.position
           data == fs[OrigFile].data
       IN \E ok \in BOOLEAN :
             IF CHECK_INTEGRITY \in call.flags
             THEN LET table == IF call.integrity_table # <<>>
                               THEN call.integrity_table
                               ELSE IntegrityData(
                                      wim.hdr.lookup_table_res_entry.offset
                                      + wim.hdr.lookup_table_res_entry.size)
                  IN IF ok
                     THEN /\ fs' = SetData(OrigFile, WriteAt(data, xml_end, table))
                          /\ wim' = [wim EXCEPT !.hdr.integrity =
                                       Entry(xml_end,
                                             IF call.integrity_table # <<>>
                                             THEN wim.hdr.integrity.size
                                             ELSE Len(table))]
                          /\ call' = [call EXCEPT !.position = @ + Len(table)]
                          /\ wpc' = "overwrite_header"
                          /\ wtrace' = Append(wtrace, WEv("write_integrity", xml_end))
                     ELSE /\ wim' = [wim EXCEPT !.hdr.integrity.offset = xml_end]
                          /\ call' = Fail(call, "WRITE")
                          /\ wpc' = "return"
                          /\ wtrace' = Append(wtrace, WEv("write_integrity_failed", xml_end))
                          /\ UNCHANGED fs
             ELSE IF ok
                  THEN /\ fs' = SetData(OrigFile, Truncate(data, xml_end))
                       /\ wim' = [wim EXCEPT !.hdr.integrity = ZeroEntry]
                       /\ call' = call
                       /\ wpc' = "overwrite_header"
                       /\ wtrace' = Append(wtrace, WEv("truncate", xml_end))
                  ELSE /\ call' = Fail(call, "WRITE")
                       /\ wpc' = "return"
                       /\ wtrace' = Append(wtrace, WEv("truncate_failed", xml_end))
                       /\ UNCHANGED <<fs, wim>>
    /\ UNCHANGED <<log, extractVars>>

\* wimlib_overwrite_xml_and_header(): seek to 0 and write w->hdr,
\* lines 220-230
OverwriteHeader ==
    /\ wpc = "overwrite_header"
    /\ \E ok \in BOOLEAN :
          IF ok
          THEN /\ fs' = [fs EXCEPT ![OrigFile].hdr = wim.hdr]
               /\ call' = [call EXCEPT !.position = WIM_HEADER_DISK_SIZE]
               /\ wpc' = "close"
               /\ wtrace' = Append(wtrace, WEv("overwrite_header", 0))
          ELSE /\ call' = Fail(call, "WRITE")
               /\ wpc' = "return"
               /\ wtrace' = Append(wtrace, WEv("overwrite_header_failed", 0))
               /\ UNCHANGED fs
    /\ UNCHANGED <<wim, log, extractVars>>

\* wimlib_overwrite_xml_and_header(): fclose(fp), lines 232-239; after a
\* failed fclose() w->fp keeps pointing to the closed stream
CloseReopened ==
    /\ wpc = "close"
    /\ \E ok \in BOOLEAN :
          /\ wim' = [wim EXCEPT !.fp = IF ok THEN "null" ELSE "closed"]
          /\ call' = IF ok THEN [call EXCEPT !.ret = "OK"]
                     ELSE Fail(call, "WRITE")
          /\ wtrace' = Append(wtrace, WEv("close", IF ok THEN 1 ELSE 0))
    /\ wpc' = "return"
    /\ UNCHANGED <<fs, log, extractVars>>

\* the call returns call.ret to its caller
Return ==
    /\ wpc = "return"
    /\ log' = Append(log, LogEntry(call, FALSE))
    /\ wpc' = "idle"
    /\ UNCHANGED <<wim, fs, call, wtrace, extractVars>>

\* the process is killed in the middle of a call
Crash ==
    /\ InCall
    /\ wpc' = "crashed"
    /\ log' = Append(log, LogEntry(Fail(call, call.ret), TRUE))
    /\ UNCHANGED <<wim, fs, call, wtrace, extractVars>>

WriteNext ==
    \/ CallWrite
    \/ CallOverwrite
    \/ CallOverwriteXmlAndHeader
    \/ BeginWrite
    \/ WriteFileResources
    \/ WriteMetadata
    \/ WriteLookupTable
    \/ WriteXml
    \/ WriteIntegrity
    \/ WriteFinalHeader
    \/ CloseOutput
    \/ CloseOriginal
    \/ RenameTemporary
    \/ ReopenRw
    \/ ReadIntegrityTable
    \/ OverwriteXml
    \/ OverwriteIntegrity
    \/ OverwriteHeader
    \/ CloseReopened
    \/ Return
    \/ Crash

(***************************************************************************)
(* The calls wimlib_extract_files() and wimlib_extract_image()             *)
(* (extract.c, lines 598-966).  A path is "" or a name; canonicalising a   *)
(* path keeps it empty or non-empty.  extract_tree() is the machine of     *)
(* the first part: here a call of it is an event of the history and its    *)
(* result is any result.                                                   *)
(***************************************************************************)
ApiFlagNames == {"NTFS", "SYMLINK", "HARDLINK", "RPFIX", "NORPFIX", "UNIX_DATA"}
\* WIMLIB_EXTRACT_MASK_PUBLIC: MULTI_IMAGE and NO_STREAMS are internal
WIMLIB_EXTRACT_MASK_PUBLIC == ApiFlagNames \cup {"SEQUENTIAL", "VERBOSE", "TO_STDOUT"}
ApiFlagSets == {g \in SUBSET ApiFlagNames : Cardinality(g) <= MaxFlags}
PathNames == {"", "p"}
\* struct wimlib_extract_command
ApiCommand(src, dest, flags) ==
    [wim_source_path |-> src, fs_dest_path |-> dest, extract_flags |-> flags]
ApiCommands ==
    {ApiCommand(s, d, f) : s \in PathNames, d \in PathNames, f \in ApiFlagSets}
\* the command lists of a call: none, one or two commands
CommandLists ==
    {<<>>} \cup {<<a>> : a \in ApiCommands}
           \cup {<<a, b>> : a \in ApiCommands, b \in ApiCommands}

\* a validation that lets every command through
AcceptAll(c, rp_fix) == [ret |-> "OK", extract_flags |-> c.extract_flags]
\* check_extract_command(), lines 598-685, in a build with NTFS-3g and not
\* for Windows: the result and the flags left in cmd->extract_flags
check_extract_command(c, rp_fix) ==
    LET is_entire_image == c.wim_source_path = ""
        f == c.extract_flags
        g == IF f \cap {"RPFIX", "NORPFIX"} = {} /\ rp_fix /\ is_entire_image
             THEN f \cup {"RPFIX"} ELSE f
        bad == [ret |-> "INVALID_PARAM", extract_flags |-> f]
    IN IF c.fs_dest_path = "" THEN bad
       ELSE IF LinkFlags \subseteq f THEN bad
       ELSE IF "NTFS" \in f /\ f \cap LinkFlags # {} THEN bad
       ELSE IF "NTFS" \in f /\ ~is_entire_image THEN bad
       ELSE IF "NTFS" \in f /\ "UNIX_DATA" \in f THEN bad
       ELSE IF {"RPFIX", "NORPFIX"} \subseteq f THEN bad
       ELSE IF ~is_entire_image /\ "RPFIX" \in g THEN bad
       ELSE [ret |-> "OK", extract_flags |-> g]

AEv(e, x) == [ev |-> e, x |-> x]
NoApi ==
    [fn |-> "none", image |-> 0, num_cmds |-> 0, cmds |-> <<>>, target |-> "",
     extract_flags |-> {}, default_extract_flags |-> {},
     num_additional_swms |-> 0, rp_fix |-> FALSE, image_count |-> 0,
     cmds_copy |-> <<>>, i |-> 0, cur |-> 0, found_link_cmd |-> FALSE,
     found_nolink_cmd |-> FALSE, all_flags |-> {}, ret |-> "OK"]
ApiIdle ==
    /\ api = NoApi
    /\ apc = "idle"
    /\ atrace = <<>>

\* the calls of wimlib_extract_files(): the default flags are none or one
\* link mode; the commands of the array are drawn where the call reads them
ExtractFilesCalls ==
    {[NoApi EXCEPT !.fn = "extract_files", !.image = 1, !.num_cmds = Len(l),
                   !.default_extract_flags = df,
                   !.num_additional_swms = n, !.rp_fix = rp,
                   !.image_count = NumImages] :
        l \in CommandLists, df \in {{}} \cup {{m} : m \in LinkFlags},
        n \in 0..1, rp \in BOOLEAN}
\* the calls of wimlib_extract_image() on an archive of ic images
ExtractImageCalls ==
    {[NoApi EXCEPT !.fn = "extract_image", !.image = im, !.target = t,
                   !.extract_flags = f, !.num_additional_swms = n,
                   !.rp_fix = rp, !.image_count = ic] :
        im \in {WIM_ALL_IMAGES, 1}, t \in PathNames, f \in ApiFlagSets,
        n \in 0..1, rp \in BOOLEAN, ic \in 0..NumImages}

ApiInit ==
    /\ api \in ExtractFilesCalls \cup ExtractImageCalls
    /\ apc = "entry"
    /\ atrace = <<>>

\* what a call does from an exit label on: lte_free_extracted_file after a
\* linked extraction (lines 797-802 and 957-963), the label
\* out_free_cmds_copy (803-808), unmerge_lookup_table() under the label
\* out_restore_lookup_table (809-811 and 964-965), nothing under out
Cleanup(label, a) ==
    (IF label = "free_extracted" /\ a.all_flags \cap LinkFlags # {}
     THEN <<AEv("lte_free_extracted_file", 0)>> ELSE <<>>)
    \o (IF label \in {"free_extracted", "out_free_cmds_copy"}
           /\ a.fn = "extract_files"
        THEN <<AEv("free_cmds_copy", 0)>> ELSE <<>>)
    \o (IF label # "out" /\ a.num_additional_swms # 0
        THEN <<AEv("unmerge", 0)>> ELSE <<>>)

\* verify_swm_set(), lines 758-760 and 941-943
VerifySwmSet ==
    /\ apc = "entry"
    /\ \E ok \in BOOLEAN :
         IF ok
         THEN /\ apc' = "merge"
              /\ api' = api
         ELSE /\ apc' = "out"
              /\ api' = [api EXCEPT !.ret = "SPLIT_INVALID"]
    /\ atrace' = Append(atrace, AEv("verify_swm_set", 0))
    /\ UNCHANGED <<engineVars, archiveVars>>

\* merge_lookup_tables(), lines 762-766 and 945-946; wimlib_extract_files()
\* with no command returns before it
MergeLookupTables ==
    /\ apc = "merge"
    /\ IF api.fn = "extract_files" /\ api.num_cmds = 0
       THEN /\ apc' = "out"
            /\ atrace' = atrace
       ELSE /\ apc' = IF api.fn = "extract_files" THEN "copy" ELSE "extract_image"
            /\ atrace' = IF api.num_additional_swms # 0
                         THEN Append(atrace, AEv("merge", 0)) ELSE atrace
    /\ UNCHANGED <<api, engineVars, archiveVars>>

\* the effective flags of a command of wimlib_extract_files(), lines 775-777
EffectiveFlags(c, default_extract_flags) ==
    (default_extract_flags \cup c.extract_flags) \cap WIMLIB_EXTRACT_MASK_PUBLIC
\* an exit that leaves the lookup tables merged
LeaveMerged == "out"
\* the exit taken when CALLOC() of cmds_copy fails, line 771
AfterCallocFailure == "out_restore_lookup_table"

\* wimlib_extract_files(): cmds_copy, lines 768-792
CopyCommands ==
    /\ apc = "copy"
    /\ \E fail \in {"none", "CALLOC", "canonicalize"},
          cmds \in {l \in CommandLists : Len(l) = api.num_cmds} :
         CASE fail = "CALLOC" ->
                /\ api' = [api EXCEPT !.ret = "NOMEM"]
                /\ apc' = "out"
                /\ atrace' = atrace \o Cleanup(AfterCallocFailure, api)
           [] fail = "canonicalize" ->
                /\ api' = [api EXCEPT !.ret = "NOMEM"]
                /\ apc' = "out"
                /\ atrace' = atrace \o Cleanup("out_free_cmds_copy", api)
           [] OTHER ->
                LET copy == [k \in 1..Len(cmds) |->
                               ApiCommand(cmds[k].wim_source_path,
                                          cmds[k].fs_dest_path,
                                          EffectiveFlags(cmds[k],
                                              api.default_extract_flags))]
                IN /\ api' = [api EXCEPT
                                !.cmds = cmds,
                                !.cmds_copy = copy,
                                !.all_flags = UNION {copy[k].extract_flags :
                                                       k \in 1..Len(copy)}]
                   /\ apc' = "select"
                   /\ atrace' = atrace
    /\ UNCHANGED <<engineVars, archiveVars>>

\* wimlib_extract_image() and extract_all_images() up to the loop,
\* lines 882-902 and 948-955; stat() and mkdir() of "" fail
BeginImage ==
    /\ apc = "extract_image"
    /\ IF api.image = WIM_ALL_IMAGES
       THEN \E r \in (IF api.target = "" THEN {} ELSE {"OK"})
                       \cup {"MKDIR", "STAT", "NOTDIR"} :
              /\ r = "NOTDIR" => api.target # ""
              /\ api' = [api EXCEPT
                           !.ret = r, !.cur = 1,
                           !.extract_flags = (@ \cap WIMLIB_EXTRACT_MASK_PUBLIC)
                                               \cup {"MULTI_IMAGE"},
                           !.all_flags = api.extract_flags
                                           \cap WIMLIB_EXTRACT_MASK_PUBLIC]
              /\ apc' = IF r = "OK" THEN "single" ELSE "out"
              /\ atrace' = Append(atrace, AEv("stat", 0))
                             \o (IF r = "OK" THEN <<>>
                                 ELSE Cleanup("free_extracted", api'))
       ELSE /\ api' = [api EXCEPT
                         !.cur = api.image,
                         !.extract_flags = @ \cap WIMLIB_EXTRACT_MASK_PUBLIC,
                         !.all_flags = api.extract_flags
                                         \cap WIMLIB_EXTRACT_MASK_PUBLIC]
            /\ apc' = "single"
            /\ atrace' = atrace
    /\ UNCHANGED <<engineVars, archiveVars>>

\* the loop of extract_all_images(), lines 903-921, and
\* extract_single_image() up to do_wimlib_extract_files(), lines 833-846
ExtractSingleImage ==
    /\ apc = "single"
    /\ IF api.image = WIM_ALL_IMAGES /\ api.cur > api.image_count
       THEN /\ api' = [api EXCEPT !.ret = "OK"]
            /\ apc' = "out"
            /\ atrace' = atrace \o Cleanup("free_extracted", api)
       ELSE \E ok \in BOOLEAN :
              IF ok
              THEN /\ api' = [api EXCEPT !.cmds_copy =
                               <<ApiCommand("",
                                   IF api.image = WIM_ALL_IMAGES
                                   THEN "p" ELSE api.target,
                                   api.extract_flags)>>]
                   /\ apc' = "select"
                   /\ atrace' = atrace
              ELSE /\ api' = [api EXCEPT !.ret = "NOMEM"]
                   /\ apc' = "out"
                   /\ atrace' = atrace \o Cleanup("free_extracted", api)
    /\ UNCHANGED <<engineVars, archiveVars>>

\* what follows the return of do_wimlib_extract_files() with result r:
\* lines 793-795, 847-849, 917-921 and 950-955
ReturnFrom(r) ==
    IF api.image = WIM_ALL_IMAGES /\ api.fn = "extract_image" /\ r = "OK"
    THEN "single" ELSE "out"
\* the rest of the call when it goes on to its exit
ReturnEvents(r) ==
    IF ReturnFrom(r) = "out" THEN Cleanup("free_extracted", api) ELSE <<>>
CurAfter(r) ==
    IF api.image = WIM_ALL_IMAGES /\ api.fn = "extract_image" /\ r = "OK"
    THEN api.cur + 1 ELSE api.cur

\* do_wimlib_extract_files(): select_wim_image() and
\* wim_checksum_unhashed_streams(), lines 700-709
SelectImage ==
    /\ apc = "select"
    /\ \E r \in {"OK", "INVALID_IMAGE", "READ"} :
         /\ api' = [api EXCEPT !.ret = r, !.i = 1,
                               !.found_link_cmd = FALSE,
                               !.found_nolink_cmd = FALSE]
         /\ apc' = IF r = "OK" THEN "check" ELSE ReturnFrom(r)
         /\ atrace' = Append(atrace, AEv("select_wim_image", api.cur))
                        \o (IF r = "OK" THEN <<>> ELSE ReturnEvents(r))
    /\ UNCHANGED <<engineVars, archiveVars>>

\* do_wimlib_extract_files(): one turn of the loop that checks the
\* commands, lines 711-727
CheckCommand ==
    /\ apc = "check"
    /\ LET c == api.cmds_copy[api.i]
           checked == check_extract_command(c, api.rp_fix)
           link == checked.extract_flags \cap LinkFlags # {}
           found_link_cmd == api.found_link_cmd \/ link
           found_nolink_cmd == api.found_nolink_cmd \/ ~link
           r == IF checked.ret # "OK" THEN checked.ret
                ELSE IF found_link_cmd /\ found_nolink_cmd
                THEN "INVALID_PARAM" ELSE "OK"
       IN /\ api' = [api EXCEPT
                       !.ret = r,
                       !.cmds_copy[api.i].extract_flags = checked.extract_flags,
                       !.found_link_cmd =
                           IF checked.ret = "OK" THEN found_link_cmd ELSE @,
                       !.found_nolink_cmd =
                           IF checked.ret = "OK" THEN found_nolink_cmd ELSE @,
                       !.i = IF r # "OK" THEN @
                             ELSE IF api.i < Len(api.cmds_copy) THEN @ + 1
                             ELSE 1]
          /\ apc' = IF r # "OK" THEN ReturnFrom(r)
                    ELSE IF api.i < Len(api.cmds_copy) THEN "check"
                    ELSE "execute"
          /\ atrace' = Append(atrace, AEv("check_extract_command", api.i))
                         \o (IF r # "OK" THEN ReturnEvents(r) ELSE <<>>)
    /\ UNCHANGED <<engineVars, archiveVars>>

\* do_wimlib_extract_files(): one turn of the loop that executes the
\* commands, lines 729-739
ExecuteCommand ==
    /\ apc = "execute"
    /\ \E r \in {"OK", "WRITE"} :
         LET last == r # "OK" \/ api.i = Len(api.cmds_copy)
         IN /\ api' = [api EXCEPT
                         !.ret = r,
                         !.i = IF last THEN @ ELSE @ + 1,
                         !.cur = IF last THEN CurAfter(r) ELSE @]
            /\ apc' = IF last THEN ReturnFrom(r) ELSE "execute"
            /\ atrace' = Append(atrace, AEv("extract_tree", api.i))
                           \o (IF last THEN ReturnEvents(r) ELSE <<>>)
    /\ UNCHANGED <<engineVars, archiveVars>>

ApiNext ==
    \/ VerifySwmSet
    \/ MergeLookupTables
    \/ CopyCommands
    \/ BeginImage
    \/ ExtractSingleImage
    \/ SelectImage
    \/ CheckCommand
    \/ ExecuteCommand

(***************************************************************************)
(* Planning after an earlier extraction.  extract_tree() is called once    *)
(* for every command of a call, and its exit resets needs_extraction and   *)
(* i_visited only (lines 268-274): out_refcnt and lte_dentry_list are as   *)
(* the planning of the earlier command left them, and after a linked       *)
(* extraction extracted_file is set until the call returns (lines          *)
(* 797-802).                                                               *)
(***************************************************************************)
\* the flags the planner and calculate_bytes_to_extract() read
PlannerFlags == {"NTFS"} \cup LinkFlags
\* the state in which no extraction has been planned yet
FreshPlan ==
    [out_refcnt |-> [s \in Streams |-> 0],
     i_visited |-> [d \in Dentries |-> 0],
     lte_dentry_list |-> [s \in Streams |-> <<>>],
     stream_list |-> <<>>,
     needs_extraction |-> [d \in Dentries |-> 0]]
\* what the planning of the subtree of r0 left behind, if there was one
EarlierPlan(r0, flags) ==
    IF r0 = NULL THEN FreshPlan
    ELSE find_streams_for_extraction(r0, FreshPlan, flags)

PlanInit ==
    /\ img \in {i \in Images : WellFormedImage(i)}
    /\ cmd \in {c \in Commands : /\ WellFormedCommand(c)
                                 /\ ~c.progress
                                 /\ c.flags \subseteq PlannerFlags}
    /\ pc = "start"
    /\ ret = "OK"
    /\ extract_flags = cmd.flags
    /\ args_flags = cmd.flags
    /\ vol = "none"
    /\ \E r0 \in {NULL} \cup Dentries, done \in BOOLEAN :
          LET st == EarlierPlan(r0, cmd.flags)
          IN /\ out_refcnt = st.out_refcnt
             /\ lte_dentry_list = st.lte_dentry_list
             /\ extracted_file =
                  [s \in Streams |-> /\ done
                                     /\ cmd.flags \cap LinkFlags # {}
                                     /\ s \in Range(st.stream_list)]
    /\ needs_extraction = [d \in Dentries |-> 0]
    /\ i_visited = [d \in Dentries |-> 0]
    /\ i_extracted = [d \in Dentries |-> FALSE]
    /\ stream_list = <<>>
    /\ progress = [num_streams |-> 0, total_bytes |-> 0, completed_bytes |-> 0]
    /\ next_progress = 0
    /\ pos = [idx |-> 0, li |-> 0, di |-> 0]
    /\ trace = <<>>
    /\ planned = <<>>

\* extract_tree() up to the end of the planning, lines 470-504
PlanNext ==
    \/ MountVolume
    \/ GetDentry
    \/ Plan

(***************************************************************************)
(* The planner on whatever an earlier operation on the image left behind:  *)
(* as PlanInit, and the i_visited flags of inodes of the image may have    *)
(* been left set.                                                          *)
(***************************************************************************)
MaxLeftVisited == 1
\* the values of the i_visited flags: a flag belongs to an inode, and at
\* most MaxLeftVisited flags were left set
LeftVisited ==
    {v \in [Dentries -> {0, 1}] :
        /\ \A d \in Dentries : v[d] = 1 => d_inode(d) = d
        /\ Cardinality({d \in Dentries : v[d] = 1}) <= MaxLeftVisited}

ReplanInit ==
    /\ img \in {i \in Images : WellFormedImage(i)}
    /\ cmd \in {c \in Commands : /\ WellFormedCommand(c)
                                 /\ ~c.progress
                                 /\ c.flags \subseteq PlannerFlags}
    /\ pc = "start"
    /\ ret = "OK"
    /\ extract_flags = cmd.flags
    /\ args_flags = cmd.flags
    /\ vol = "none"
    /\ \E r0 \in {NULL} \cup Dentries :
          LET st == EarlierPlan(r0, cmd.flags)
          IN /\ out_refcnt = st.out_refcnt
             /\ lte_dentry_list = st.lte_dentry_list
    /\ extracted_file = [s \in Streams |-> FALSE]
    /\ needs_extraction = [d \in Dentries |-> 0]
    /\ i_visited \in LeftVisited
    /\ i_extracted = [d \in Dentries |-> FALSE]
    /\ stream_list = <<>>
    /\ progress = [num_streams |-> 0, total_bytes |-> 0, completed_bytes |-> 0]
    /\ next_progress = 0
    /\ pos = [idx |-> 0, li |-> 0, di |-> 0]
    /\ trace = <<>>
    /\ planned = <<>>

(***************************************************************************)
(* do_apply_op() on its own: the output path of a dentry.  A path is a     *)
(* sequence of characters; the name of a dentry is one or two characters.  *)
(* dentry->_full_path starts with a separator (do_apply_op() skips it) and *)
(* is "/" for the root of the image; wim_source_path is canonical: no      *)
(* leading and no trailing separator, empty for the root of the image.     *)
(***************************************************************************)
MaxPathOps == 2
Separator == "/"
DentryName(d) == IF d % 2 = 0 THEN <<"a">> ELSE <<"b", "c">>

RECURSIVE FullPath(_)
\* calculate_dentry_full_path(): dentry->_full_path
FullPath(d) ==
    IF d = 1 THEN <<Separator>>
    ELSE (IF Parent(d) = 1 THEN <<>> ELSE FullPath(Parent(d)))
           \o <<Separator>> \o DentryName(d)

\* get_dentry(): the canonical path that names dentry d
CanonicalWimPath(d) == Tail(FullPath(d))

Targets == {<<"t">>, <<"t", Separator, "u">>}

\* do_apply_op(): output_path, lines 60-77
do_apply_op(dentry, target, wim_source_path, extract_root) ==
    LET full_path == Tail(FullPath(dentry))
        full_path_nchars == Len(FullPath(dentry)) - 1
        wim_source_path_nchars == Len(wim_source_path)
    IN target
         \o (IF dentry # extract_root
             THEN <<Separator>>
                    \o SubSeq(full_path, wim_source_path_nchars + 1,
                              full_path_nchars)
             ELSE <<>>)

\* a call of the backend with the path built for it
PathEv(f, d, path) == [ev |-> f, x |-> d, path |-> path]

PathInit ==
    /\ img = CHOOSE i \in Images : WellFormedImage(i)
    /\ cmd \in {[path_empty |-> r = 1, root |-> r, flags |-> {},
                  progress |-> FALSE, target |-> t,
                  wim_source_path |-> CanonicalWimPath(r)] :
                    r \in Dentries, t \in Targets}
    /\ pc = "phaseA"
    /\ ret = "OK"
    /\ extract_flags = {}
    /\ args_flags = {}
    /\ vol = "none"
    /\ out_refcnt = [s \in Streams |-> 0]
    /\ extracted_file = [s \in Streams |-> FALSE]
    /\ lte_dentry_list = [s \in Streams |-> <<>>]
    /\ needs_extraction = [d \in Dentries |-> 0]
    /\ i_visited = [d \in Dentries |-> 0]
    /\ i_extracted = [d \in Dentries |-> FALSE]
    /\ stream_list = <<>>
    /\ progress = [num_streams |-> 0, total_bytes |-> 0, completed_bytes |-> 0]
    /\ next_progress = 0
    /\ pos = [idx |-> 0, li |-> 0, di |-> 0]
    /\ trace = <<>>
    /\ planned = <<>>

\* apply_dentry_normal() or apply_dentry_timestamps_normal() on a dentry
\* of the tree that is extracted, lines 83-103
DoApplyOp ==
    /\ Len(trace) < MaxPathOps
    /\ \E d \in Subtree(cmd.root),
          f \in {"do_apply_dentry", "do_apply_dentry_timestamps"} :
          trace' = Append(trace,
                     PathEv(f, d, do_apply_op(d, cmd.target,
                                              cmd.wim_source_path, cmd.root)))
    /\ UNCHANGED <<img, cmd, pc, ret, extract_flags, args_flags, vol,
                   out_refcnt, extracted_file, lte_dentry_list,
                   needs_extraction, i_visited, i_extracted, stream_list,
                   progress, next_progress, pos, planned, writeVars>>

PathNext == DoApplyOp

(***************************************************************************)
(* The sort of extract_tree() on its own: the call has planned a stream    *)
(* list of up to MaxSortStreams descriptors, several of them at the same   *)
(* archive position (descriptors of different parts of a split archive),   *)
(* and goes on from there.                                                 *)
(***************************************************************************)
MaxSortStreams == 4
SortStreams == 1..MaxSortStreams
\* the stream lists a planner may leave: no descriptor twice
PlannedLists ==
    {l \in UNION {[1..n -> SortStreams] : n \in 0..MaxSortStreams} :
        \A i, j \in 1..Len(l) : i # j => l[i] # l[j]}

SortInit ==
    /\ img = CHOOSE i \in Images : WellFormedImage(i)
    /\ cmd \in {[path_empty |-> TRUE, root |-> 1, flags |-> f, progress |-> p] :
                  f \in {{}, {"SEQUENTIAL"}}, p \in BOOLEAN}
    /\ pc = "planned"
    /\ ret = "OK"
    /\ extract_flags = cmd.flags
    /\ args_flags = cmd.flags
    /\ vol = "none"
    /\ out_refcnt = [s \in Streams |-> 0]
    /\ extracted_file = [s \in Streams |-> FALSE]
    /\ lte_dentry_list = [s \in Streams |-> <<>>]
    /\ needs_extraction = [d \in Dentries |-> 0]
    /\ i_visited = [d \in Dentries |-> 0]
    /\ i_extracted = [d \in Dentries |-> FALSE]
    /\ stream_list \in PlannedLists
    /\ planned = stream_list
    /\ progress = [num_streams |-> Len(stream_list), total_bytes |-> 0,
                   completed_bytes |-> 0]
    /\ next_progress = 0
    /\ pos = [idx |-> 0, li |-> 0, di |-> 0]
    /\ trace = <<>>

SortNext == BeginExtract

\* no extraction is in progress while the writer runs
ExtractIdle ==
    /\ img = CHOOSE i \in Images : WellFormedImage(i)
    /\ cmd = CHOOSE c \in Commands : WellFormedCommand(c)
    /\ pc = "idle"
    /\ ret = "OK"
    /\ extract_flags = {}
    /\ args_flags = {}
    /\ vol = "none"
    /\ out_refcnt = [s \in Streams |-> 0]
    /\ extracted_file = [s \in Streams |-> FALSE]
    /\ lte_dentry_list = [s \in Streams |-> <<>>]
    /\ needs_extraction = [d \in Dentries |-> 0]
    /\ i_visited = [d \in Dentries |-> 0]
    /\ i_extracted = [d \in Dentries |-> FALSE]
    /\ stream_list = <<>>
    /\ progress = [num_streams |-> 0, total_bytes |-> 0, completed_bytes |-> 0]
    /\ next_progress = 0
    /\ pos = [idx |-> 0, li |-> 0, di |-> 0]
    /\ trace = <<>>
    /\ planned = <<>>

Init == ExtractInit /\ WriteIdle /\ ApiIdle
Next == ExtractNext
Spec == Init /\ [][Next]_vars

InitWriter == WriteInit /\ ExtractIdle /\ ApiIdle
WriteSpec == InitWriter /\ [][WriteNext]_vars

InitPlan == PlanInit /\ WriteIdle /\ ApiIdle
PlanSpec == InitPlan /\ [][PlanNext]_vars

InitApi == ApiInit /\ ExtractIdle /\ WriteIdle
ApiSpec == InitApi /\ [][ApiNext]_vars

InitReplan == ReplanInit /\ WriteIdle /\ ApiIdle
ReplanSpec == InitReplan /\ [][PlanNext]_vars

InitPath == PathInit /\ WriteIdle /\ ApiIdle
PathSpec == InitPath /\ [][PathNext]_vars

InitSort == SortInit /\ WriteIdle /\ ApiIdle
SortSpec == InitSort /\ [][SortNext]_vars

(***************************************************************************)
(* What the history of an extract_tree() call shows.                       *)
(***************************************************************************)
EventsOf(kinds) == SelectSeq(trace, LAMBDA e : e.ev \in kinds)
Messages == SelectSeq(trace, LAMBDA e : e.ph = "msg")

\* archive reads of descriptor s
Reads(s) == Len(SelectSeq(trace, LAMBDA e : e.ev = "read" /\ e.x = s))
\* successful apply_dentry calls on dentry d
Applies(d) ==
    SelectSeq(trace, LAMBDA e : e.ev = "apply_dentry" /\ e.x = d)
\* the descriptors in the order the outer loop of phase B visited them
Visited == [i \in 1..Len(EventsOf({"visit"})) |-> EventsOf({"visit"})[i].x]

LinkMode == cmd.flags \cap LinkFlags # {}
ToStdout == "TO_STDOUT" \in cmd.flags

\* phases A and B are done and nothing has failed
StreamsDone ==
    /\ ~ToStdout
    /\ ret = "OK"
    /\ pc \in {"phaseC", "out_free_target_realpath", "out_ntfs_umount", "out"}

\* extract_tree() has returned
Returned == pc = "out"

\* extract_tree() has returned 0 after the three phases
Succeeded == Returned /\ ret = "OK" /\ ~ToStdout

IsPermutationOf(a, b) ==
    /\ Len(a) = Len(b)
    /\ \A s \in Streams :
          Cardinality({i \in 1..Len(a) : a[i] = s})
            = Cardinality({i \in 1..Len(b) : b[i] = s})

C4_AppliedExactlyOnce ==
    StreamsDone =>
        \A d \in Subtree(cmd.root) :
            /\ needs_extraction[d] = 0
            /\ Len(Applies(d)) = 1
            /\ Applies(d)[1].ph =
                 (IF dentry_is_directory(d)
                     \/ inode_unnamed_lte_resolved(d_inode(d)) = NULL
                  THEN "A" ELSE "B")

\* a full image with a file applied in phase A and one applied in phase B
C4_Witness ==
    /\ Succeeded /\ cmd.root = 1
    /\ \E d, e \in Files :
          /\ Len(Applies(d)) = 1 /\ Applies(d)[1].ph = "A"
          /\ Len(Applies(e)) = 1 /\ Applies(e)[1].ph = "B"

(***************************************************************************)
(* C5 as stated: completed_bytes starts at 0, never decreases, never       *)
(* exceeds total_bytes, and equals total_bytes when the extract call       *)
(* finishes successfully.                                                  *)
(***************************************************************************)
C5_CompletedReachesTotal ==
    /\ progress.completed_bytes <= progress.total_bytes
    /\ pc \in {"start", "get_dentry", "plan", "planned"}
          => progress.completed_bytes = 0
    /\ (Returned /\ ret = "OK")
          => progress.completed_bytes = progress.total_bytes

(***************************************************************************)
(* C5, amended: completed_bytes starts at 0, never decreases, never        *)
(* exceeds total_bytes, and equals total_bytes when an extraction other    *)
(* than TO_STDOUT finishes successfully (a TO_STDOUT extraction leaves     *)
(* completed_bytes at 0).                                                  *)
(***************************************************************************)
C5_CompletedBytes ==
    /\ [](/\ progress.completed_bytes <= progress.total_bytes
          /\ pc \in {"start", "get_dentry", "plan", "planned"}
                => progress.completed_bytes = 0
          /\ StreamsDone
                => progress.completed_bytes = progress.total_bytes
          /\ ToStdout => progress.completed_bytes = 0)
    /\ [][progress'.completed_bytes >= progress.completed_bytes]_vars

\* hard links of one inode beside another inode with the same stream
C5_Witness ==
    /\ Succeeded /\ ~LinkMode
    /\ progress.completed_bytes = progress.total_bytes
    /\ \E d, e \in Files :
          /\ d # e /\ d_inode(d) = d_inode(e)
          /\ inode_unnamed_lte_resolved(d_inode(d)) # NULL
    /\ \E s \in Streams : out_refcnt[s] >= 1 /\ progress.total_bytes > 0

(***************************************************************************)
(* C6 as stated: when SEQUENTIAL is requested phase B visits the stream    *)
(* descriptors in non-decreasing archive offset order, when it is not      *)
(* requested in the planner's discovery order; either way the visited list *)
(* is a permutation of the planned list.                                   *)
(***************************************************************************)
C6_SequentialAlwaysSorted ==
    StreamsDone =>
        /\ "SEQUENTIAL" \in cmd.flags => SortedByPosition(Visited)
        /\ "SEQUENTIAL" \notin cmd.flags => Visited = planned
        /\ IsPermutationOf(Visited, planned)

(***************************************************************************)
(* C6, amended: when SEQUENTIAL is requested and the allocation of the     *)
(* sort succeeds, phase B visits the stream descriptors in non-decreasing  *)
(* archive offset order; when it is not requested, or the allocation       *)
(* fails, in the planner's discovery order.  Either way the visited list   *)
(* is a permutation of the planned list, and while phase B runs it is a    *)
(* prefix of the stream list.                                              *)
(***************************************************************************)
C6_VisitOrder ==
    /\ Len(Visited) <= Len(stream_list)
    /\ Visited = SubSeq(stream_list, 1, Len(Visited))
    /\ StreamsDone =>
        /\ "SEQUENTIAL" \in extract_flags => SortedByPosition(Visited)
        /\ "SEQUENTIAL" \notin extract_flags => Visited = planned
        /\ IsPermutationOf(Visited, planned)

\* the sort has changed the order of the list
C6_Witness ==
    /\ Succeeded
    /\ "SEQUENTIAL" \in extract_flags
    /\ Len(Visited) >= 2
    /\ Visited # planned

(***************************************************************************)
(* C8: every phase A apply_dentry call precedes every phase B call, every  *)
(* phase B call precedes every apply_dentry_timestamps call, and a         *)
(* dentry's timestamps are applied only after those of all its             *)
(* descendants.                                                            *)
(***************************************************************************)
PhaseRank(e) ==
    IF e.ev = "apply_dentry_timestamps" THEN 3
    ELSE IF e.ph = "A" THEN 1 ELSE 2

C8_PhaseOrder ==
    LET calls == EventsOf({"apply_dentry", "apply_dentry_failed",
                           "apply_dentry_timestamps"})
        stamps == EventsOf({"apply_dentry_timestamps"})
    IN /\ \A i, j \in 1..Len(calls) :
             i < j => PhaseRank(calls[i]) <= PhaseRank(calls[j])
       /\ \A i \in 1..Len(stamps) :
             \A c \in Dentries :
                IsAncestor(stamps[i].x, c)
                   => \E j \in 1..(i - 1) : stamps[j].x = c

\* all three phases acted on a tree with a directory below the root
C8_Witness ==
    /\ Succeeded /\ cmd.root = 1
    /\ \E e \in Range(trace) : e.ev = "apply_dentry" /\ e.ph = "A"
    /\ \E e \in Range(trace) : e.ev = "apply_dentry" /\ e.ph = "B"
    /\ Len(EventsOf({"apply_dentry_timestamps"})) = NumDentries

(***************************************************************************)
(* The order of the progress messages.                                     *)
(***************************************************************************)
MsgNames == [i \in 1..Len(Messages) |-> Messages[i].ev]
BeginMsgs == {"EXTRACT_IMAGE_BEGIN", "EXTRACT_TREE_BEGIN"}
EndMsgs == {"EXTRACT_IMAGE_END", "EXTRACT_TREE_END"}
CountMsgs(kinds) == Cardinality({i \in 1..Len(MsgNames) : MsgNames[i] \in kinds})
IndexOf(name) == CHOOSE i \in 1..Len(MsgNames) : MsgNames[i] = name

(***************************************************************************)
(* C9 as stated: a successful extract_tree call with a progress callback   *)
(* emits one BEGIN (IMAGE iff the source path is empty),                   *)
(* DIR_STRUCTURE_BEGIN, DIR_STRUCTURE_END, then EXTRACT_DENTRY (only when  *)
(* VERBOSE) and EXTRACT_STREAMS, then APPLY_TIMESTAMPS and one END of the  *)
(* same kind; no EXTRACT_DENTRY precedes DIR_STRUCTURE_END; a failed call  *)
(* emits no END.                                                           *)
(***************************************************************************)
C9_MessageOrderAsStated ==
    LET m == MsgNames
        n == Len(MsgNames)
    IN /\ (Returned /\ ret = "OK" /\ cmd.progress) =>
            /\ n >= 5
            /\ m[1] = (IF cmd.path_empty THEN "EXTRACT_IMAGE_BEGIN"
                       ELSE "EXTRACT_TREE_BEGIN")
            /\ m[2] = "EXTRACT_DIR_STRUCTURE_BEGIN"
            /\ m[3] = "EXTRACT_DIR_STRUCTURE_END"
            /\ \A i \in 4..(n - 2) :
                  m[i] \in {"EXTRACT_DENTRY", "EXTRACT_STREAMS"}
            /\ m[n - 1] = "APPLY_TIMESTAMPS"
            /\ m[n] = (IF cmd.path_empty THEN "EXTRACT_IMAGE_END"
                       ELSE "EXTRACT_TREE_END")
            /\ CountMsgs(BeginMsgs) = 1 /\ CountMsgs(EndMsgs) = 1
       /\ CountMsgs({"EXTRACT_DENTRY"}) > 0 => "VERBOSE" \in cmd.flags
       /\ \A i \in 1..n :
             m[i] = "EXTRACT_DENTRY"
                => \E j \in 1..(i - 1) : m[j] = "EXTRACT_DIR_STRUCTURE_END"
       /\ (Returned /\ ret # "OK") => CountMsgs(EndMsgs) = 0

(***************************************************************************)
(* C9, amended: a successful extract_tree call with a progress callback    *)
(* and without TO_STDOUT emits one BEGIN (IMAGE iff the source path is     *)
(* empty), DIR_STRUCTURE_BEGIN, EXTRACT_DENTRY messages of phase A (only   *)
(* when VERBOSE), DIR_STRUCTURE_END, then EXTRACT_DENTRY (only when        *)
(* VERBOSE) and EXTRACT_STREAMS messages of phase B, APPLY_TIMESTAMPS, and *)
(* one END of the same kind.  No EXTRACT_DENTRY precedes                   *)
(* DIR_STRUCTURE_BEGIN.  A call that fails before or in phase C emits no   *)
(* END; a call whose only failure is the unmount of the NTFS volume has    *)
(* emitted END before it.  A TO_STDOUT call emits no message.              *)
(***************************************************************************)
C9_MessageOrder ==
    LET m == MsgNames
        n == Len(MsgNames)
    IN /\ (Succeeded /\ cmd.progress) =>
            /\ n >= 5
            /\ m[1] = (IF cmd.path_empty THEN "EXTRACT_IMAGE_BEGIN"
                       ELSE "EXTRACT_TREE_BEGIN")
            /\ m[2] = "EXTRACT_DIR_STRUCTURE_BEGIN"
            /\ \A i \in 3..(IndexOf("EXTRACT_DIR_STRUCTURE_END") - 1) :
                  m[i] = "EXTRACT_DENTRY"
            /\ \A i \in (IndexOf("EXTRACT_DIR_STRUCTURE_END") + 1)..(n - 2) :
                  m[i] \in {"EXTRACT_DENTRY", "EXTRACT_STREAMS"}
            /\ m[n - 1] = "APPLY_TIMESTAMPS"
            /\ m[n] = (IF cmd.path_empty THEN "EXTRACT_IMAGE_END"
                       ELSE "EXTRACT_TREE_END")
            /\ CountMsgs(BeginMsgs) = 1 /\ CountMsgs(EndMsgs) = 1
            /\ CountMsgs({"EXTRACT_DIR_STRUCTURE_END"}) = 1
       /\ CountMsgs({"EXTRACT_DENTRY"}) > 0 => "VERBOSE" \in cmd.flags
       /\ \A i \in 1..n :
             m[i] = "EXTRACT_DENTRY"
                => \E j \in 1..(i - 1) : m[j] = "EXTRACT_DIR_STRUCTURE_BEGIN"
       /\ (Returned /\ ret # "OK" /\ CountMsgs(EndMsgs) > 0) =>
            /\ ret = "NTFS_3G"
            /\ trace[Len(trace)] = Ev("ntfs_umount", 0, "call")
            /\ m[n] \in EndMsgs
       /\ (ToStdout \/ ~cmd.progress) => n = 0

\* a verbose extraction with a progress callback announced a dentry in
\* phase A and one in phase B
C9_Witness ==
    /\ Succeeded /\ cmd.progress /\ "VERBOSE" \in cmd.flags
    /\ \E i, j \in 1..Len(MsgNames) :
          /\ i < IndexOf("EXTRACT_DIR_STRUCTURE_END")
          /\ IndexOf("EXTRACT_DIR_STRUCTURE_END") < j
          /\ MsgNames[i] = "EXTRACT_DENTRY"
          /\ MsgNames[j] = "EXTRACT_DENTRY"

(***************************************************************************)
(* C10: in NTFS mode a volume that was mounted is unmounted exactly once   *)
(* before extract_tree returns, on every exit path; a failed unmount turns *)
(* ret into NTFS_3G only when ret was success, and leaves any earlier      *)
(* error as it is.                                                         *)
(***************************************************************************)
Mounts == Len(EventsOf({"ntfs_mount"}))
Umounts == Len(EventsOf({"ntfs_umount"}))
LastIsUmount(tr) == Len(tr) > 0 /\ tr[Len(tr)].ev = "ntfs_umount"

C10_UnmountOnEveryExit ==
    /\ [](/\ Umounts <= Mounts /\ Mounts <= 1
          /\ Returned => (Umounts = Mounts /\ vol # "mounted")
          /\ Mounts = 1 => "NTFS" \in cmd.flags)
    /\ [][(Len(trace') = Len(trace) + 1 /\ LastIsUmount(trace')) =>
            /\ pc' = "out"
            /\ ret' = (IF ret = "OK" /\ trace'[Len(trace')].x = 0
                       THEN "NTFS_3G" ELSE ret)]_vars

\* a failed unmount after a failed phase: the first error is returned
C10_Witness ==
    /\ Returned
    /\ Mounts = 1
    /\ trace[Len(trace)] = Ev("ntfs_umount", 0, "call")
    /\ ret = "WRITE"

(***************************************************************************)
(* What the history of a writer call shows.                                *)
(***************************************************************************)
WIndex(e) == {i \in 1..Len(wtrace) : wtrace[i] = e}
WHas(e) == WIndex(e) # {}
WFailedStep ==
    \E i \in 1..Len(wtrace) :
        wtrace[i].ev \in {"open_failed", "file_resources_failed",
                          "metadata_failed", "lookup_table_failed",
                          "xml_failed", "integrity_failed",
                          "final_header_failed"}
           \/ wtrace[i] = WEv("close_out", 0)
\* the call in progress, or the last call, is a wimlib_overwrite()
IsOverwrite == call.op = "overwrite"
WReturned == wpc = "idle" /\ Len(log) > 0

(***************************************************************************)
(* C1: in wimlib_overwrite, as long as the rename of the temporary file    *)
(* has not succeeded - in the middle of the call, after a crash at any     *)
(* step, after any error return - the file at the original path is what it *)
(* was before the call; the original changes only in the rename step.      *)
(***************************************************************************)
C1_OriginalIntactUntilRename ==
    /\ []((IsOverwrite /\ ~call.renamed) => fs[OrigFile] = call.orig0)
    /\ [][(IsOverwrite /\ fs'[OrigFile] # fs[OrigFile]) =>
            /\ wpc = "rename"
            /\ ~call.renamed /\ call'.renamed
            /\ fs'[OrigFile] = fs[TmpFile]]_vars

\* killed between the close of the complete temporary archive and the
\* rename: the original is intact and the temporary file exists
C1_Witness ==
    /\ IsOverwrite
    /\ wpc = "crashed"
    /\ WHas(WEv("final_header", 0)) /\ WHas(WEv("close_orig", 0))
    /\ ~call.renamed
    /\ fs[TmpFile].exists
    /\ fs[TmpFile] # call.orig0
    /\ call.orig0.exists
    /\ fs[OrigFile] = call.orig0

(***************************************************************************)
(* C2 as stated: in wimlib_overwrite the original handle is closed only    *)
(* after the temporary archive was written successfully and before the     *)
(* rename; if the rename fails the temporary file is unlinked (it is gone) *)
(* and the call returns the Rename error.                                  *)
(***************************************************************************)
CloseAfterWriteBeforeRename ==
    /\ \A i \in WIndex(WEv("close_orig", 0)) :
          /\ ~WFailedStep
          /\ \E j \in 1..(i - 1) : wtrace[j] = WEv("final_header", 0)
          /\ \E j \in 1..(i - 1) : wtrace[j] = WEv("close_out", 1)
          /\ \A j \in 1..(i - 1) : wtrace[j].ev # "rename"
    /\ \A i \in 1..Len(wtrace) :
          wtrace[i].ev = "rename" =>
             /\ wim.fp = "null"
             /\ ~WFailedStep
             /\ \E j \in 1..(i - 1) : wtrace[j] = WEv("close_out", 1)

C2_TemporaryGoneAfterFailedRename ==
    IsOverwrite =>
        /\ CloseAfterWriteBeforeRename
        /\ WHas(WEv("rename", 0)) =>
              /\ ~fs[TmpFile].exists
              /\ call.ret = "RENAME"

(***************************************************************************)
(* C2, amended: in wimlib_overwrite the original handle is closed only     *)
(* after the temporary archive was written successfully and before the     *)
(* rename; if the rename fails, unlink of the temporary file is attempted  *)
(* once and the call returns the Rename error whether or not the unlink    *)
(* succeeded; the temporary file is gone exactly when the unlink           *)
(* succeeded.                                                              *)
(***************************************************************************)
C2_CloseThenRenameOrUnlink ==
    IsOverwrite =>
        /\ CloseAfterWriteBeforeRename
        /\ WHas(WEv("rename", 0)) =>
              /\ Len(wtrace) >= 2
              /\ wtrace[Len(wtrace) - 1] = WEv("rename", 0)
              /\ wtrace[Len(wtrace)].ev = "unlink"
              /\ fs[TmpFile].exists <=> wtrace[Len(wtrace)].x = 0
              /\ call.ret = "RENAME"
              /\ fs[OrigFile] = call.orig0
        /\ \A i \in 1..Len(wtrace) :
              wtrace[i].ev = "unlink" => i > 1 /\ wtrace[i - 1] = WEv("rename", 0)

\* the original was closed, the rename failed, the unlink worked, and the
\* call has returned
C2_Witness ==
    /\ IsOverwrite /\ WReturned
    /\ WHas(WEv("close_orig", 0))
    /\ WHas(WEv("rename", 0)) /\ WHas(WEv("unlink", 1))
    /\ ~fs[TmpFile].exists
    /\ log[Len(log)].ret = "RENAME"

(***************************************************************************)
(* C7 as stated: overwrite_xml_and_header called twice in succession on    *)
(* the same WIMStruct with the same flags and nothing changed in between   *)
(* (and no failure of the environment in the second call): the second call *)
(* succeeds and leaves the file as the first call left it.                 *)
(***************************************************************************)
C7_SecondCallIdentical ==
    (/\ Len(log) >= 2
     /\ log[1].op = "xml" /\ log[1].ret = "OK"
     /\ log[2].op = "xml" /\ log[2].flags = log[1].flags
     /\ log[2].faults = 0)
       => /\ ~log[2].crashed
          /\ log[2].ret = "OK"
          /\ log[2].after = log[1].after

(***************************************************************************)
(* C11: whenever extract_tree returns after planning has run - success,    *)
(* failure in phase A, B or C, realpath failure, TO_STDOUT - every dentry  *)
(* of the subtree has needs_extraction = 0 and every inode of it has       *)
(* i_visited = 0; as the flags are zero when the call starts, they are     *)
(* zero on the whole image whenever the call has returned.                 *)
(***************************************************************************)
C11_FlagsResetAtReturn ==
    Returned =>
        \A d \in Dentries : needs_extraction[d] = 0 /\ i_visited[d] = 0

\* phase B failed after the planner had set the flags of two dentries that
\* share an inode
C11_Witness ==
    /\ Returned /\ ret = "WRITE"
    /\ \E e \in Range(trace) : e.ev = "apply_dentry_failed" /\ e.ph = "B"
    /\ planned # <<>>
    /\ \E d, e \in Subtree(cmd.root) : d # e /\ d_inode(d) = d_inode(e)
    /\ \A d \in Subtree(cmd.root) :
          needs_extraction[d] = 0 /\ i_visited[d_inode(d)] = 0

(***************************************************************************)
(* The steps of wimlib_write() in the history of a call.                   *)
(***************************************************************************)
\* the steps in the order of the code; integrity only with CHECK_INTEGRITY
WriteSteps(flags) ==
    <<"open", "placeholder_header", "zero_out_refcnts", "file_resources",
      "metadata", "lookup_table", "xml">>
      \o (IF CHECK_INTEGRITY \in flags THEN <<"integrity">> ELSE <<>>)
      \o <<"final_header">>
FailedSteps ==
    {"open_failed", "file_resources_failed", "metadata_failed",
     "lookup_table_failed", "xml_failed", "integrity_failed",
     "final_header_failed"}
AfterWrite == {"close_out", "close_orig", "rename", "unlink"}
\* the events of wimlib_write() before the label done
StepEvents == SelectSeq(wtrace, LAMBDA e : e.ev \notin AfterWrite)
IsWrite == call.op \in {"write", "overwrite"}
\* wimlib_write() has returned to its caller
WriteReturned ==
    /\ IsWrite
    /\ wpc \in {"written", "rename", "return", "idle"}
    /\ call.ret \notin {"NO_FILENAME"}
\* the steps were taken one after the other, each after the success of the
\* one before; a failed step is the last one
StepsInOrder ==
    LET steps == StepEvents
        want == WriteSteps(call.flags)
    IN /\ Len(steps) <= Len(want)
       /\ \A i \in 1..Len(steps) :
             \/ steps[i].ev = want[i]
             \/ /\ i = Len(steps)
                /\ steps[i].ev \in FailedSteps
                /\ steps[i].ev = IF want[i] = "placeholder_header"
                                 THEN "open" ELSE want[i] \o "_failed"
       /\ \A i \in 1..Len(wtrace) :
             wtrace[i].ev \in AfterWrite =>
                \A j \in i..Len(wtrace) : wtrace[j].ev \in AfterWrite
OutputClosedAtReturn ==
    WriteReturned =>
        /\ wim.out_fp = "null"
        /\ WHas(WEv("open", 0)) =>
              Cardinality({i \in 1..Len(wtrace) : wtrace[i].ev = "close_out"}) = 1

(***************************************************************************)
(* C12 as stated: wimlib_write takes its steps in the order open and       *)
(* placeholder header, zero refcounts, file resources, metadata, lookup    *)
(* table, XML, integrity table (only with CHECK_INTEGRITY), final header,  *)
(* each after the success of the one before; a failed write leaves the     *)
(* placeholder header in the output file; the output handle is closed and  *)
(* cleared on every path.                                                  *)
(***************************************************************************)
C12_FailedWriteKeepsPlaceholder ==
    IsWrite =>
        /\ StepsInOrder
        /\ OutputClosedAtReturn
        /\ (WriteReturned /\ call.ret \notin {"OK", "INVALID_IMAGE", "RENAME"}) =>
              /\ fs[call.path].exists
              /\ fs[call.path].hdr = wim.hdr

(***************************************************************************)
(* C12, amended: wimlib_write takes its steps in that order, each after    *)
(* the success of the one before, and writes the final header only if      *)
(* every earlier step succeeded.  A write that fails after the placeholder *)
(* header was written and before the final header was written leaves the   *)
(* placeholder header in the output file; a write that fails in fopen      *)
(* leaves no file, one that fails in the placeholder write leaves a file   *)
(* without header, and one whose only failure is the final fclose has      *)
(* written the final header.  The output handle is closed once, and        *)
(* cleared, on every path on which it was opened.                          *)
(***************************************************************************)
C12_WriteStepOrder ==
    IsWrite =>
        /\ StepsInOrder
        /\ OutputClosedAtReturn
        /\ WHas(WEv("final_header", 0)) =>
              /\ Len(StepEvents) = Len(WriteSteps(call.flags))
              /\ \A i \in 1..Len(StepEvents) : StepEvents[i].ev \notin FailedSteps
        /\ (WHas(WEv("placeholder_header", 0)) /\ ~WHas(WEv("final_header", 0))) =>
              /\ fs[call.path].exists
              /\ fs[call.path].hdr = wim.hdr
        /\ (WHas(WEv("final_header", 0)) /\ ~WHas(WEv("rename", 1))
              /\ ~WHas(WEv("unlink", 1))) =>
              fs[call.path].hdr = call.hdr
        /\ (WHas(WEv("open", 0)) /\ ~WHas(WEv("placeholder_header", 0))) =>
              fs[call.path].hdr = NoHeader
        /\ (WHas(WEv("open_failed", 0)) /\ call.op = "write") =>
              ~fs[call.path].exists

\* a write with CHECK_INTEGRITY failed in the integrity table: the output
\* is closed and holds the placeholder header, which is not what the final
\* header would have been
C12_Witness ==
    /\ call.op = "write" /\ wpc = "idle"
    /\ log[Len(log)].ret = "WRITE"
    /\ WHas(WEv("integrity_failed", 0))
    /\ WHas(WEv("close_out", 1))
    /\ wim.out_fp = "null"
    /\ fs[OutFile].hdr = wim.hdr
    /\ fs[OutFile].hdr # call.hdr

\* a finish_write() with write_lt = 1 succeeded, and its output file is
\* still under the path it was written to
FinishWriteDone ==
    /\ IsWrite
    /\ WHas(WEv("final_header", 0))
    /\ ~WHas(WEv("rename", 1)) /\ ~WHas(WEv("unlink", 1))
\* the position recorded in the history before step e was taken
PositionBefore(e) ==
    LET S == {i \in 1..Len(wtrace) : wtrace[i].ev = e}
    IN wtrace[CHOOSE i \in S : TRUE].x

(***************************************************************************)
(* C13: after a successful finish_write that writes the lookup table, the  *)
(* header at offset 0 has: lookup table offset L = the position before the *)
(* lookup-table write and size X - L; XML offset X = the position before   *)
(* the XML write and size = position after the XML - X; with               *)
(* CHECK_INTEGRITY integrity offset I = the position after the XML and     *)
(* size E - I, otherwise an all-zero integrity entry.  So                  *)
(* header size <= L <= X <= I <= E, the regions are contiguous, and        *)
(* reading each region by its entry gives back what was written there.     *)
(***************************************************************************)
C13_HeaderEntriesMatchPositions ==
    FinishWriteDone =>
        LET f == fs[call.path]
            h == f.hdr
            L == PositionBefore("lookup_table")
            X == call.xml_data_offset
            I == X + Len(XmlData(wim.wim_info))
            E == EndOffset(f.data)
            lt == h.lookup_table_res_entry
            xml == h.xml_res_entry
        IN /\ lt = Entry(L, X - L)
           /\ xml = Entry(X, I - X)
           /\ IF CHECK_INTEGRITY \in call.flags
              THEN /\ h.integrity = Entry(I, E - I)
                   /\ PositionBefore("integrity") = I
                   /\ ReadAt(f.data, I, E - I) = IntegrityData(X)
              ELSE /\ h.integrity = ZeroEntry
                   /\ I = E
           /\ WIM_HEADER_DISK_SIZE <= L /\ L <= X /\ X <= I /\ I <= E
           /\ lt.offset + lt.size = xml.offset
           /\ ReadAt(f.data, lt.offset, lt.size) = LookupTableData
           /\ ReadAt(f.data, xml.offset, xml.size) = XmlData(wim.wim_info)
           /\ L = WIM_HEADER_DISK_SIZE + 2 * Len(SelectedImages(call.image))

\* a write of one image of two with CHECK_INTEGRITY has finished: the three
\* regions are non-empty and lie behind the resources of that image
C13_Witness ==
    /\ FinishWriteDone
    /\ call.image = 2
    /\ CHECK_INTEGRITY \in call.flags
    /\ fs[call.path].hdr.lookup_table_res_entry = Entry(WIM_HEADER_DISK_SIZE + 2, 1)
    /\ fs[call.path].hdr.xml_res_entry = Entry(WIM_HEADER_DISK_SIZE + 3, 2)
    /\ fs[call.path].hdr.integrity = Entry(WIM_HEADER_DISK_SIZE + 5, 1)
    /\ EndOffset(fs[call.path].data) = WIM_HEADER_DISK_SIZE + 6

\* the resource entry of image i's metadata in the data of an output file
MetadataIn(data, i) ==
    Entry(WIM_HEADER_DISK_SIZE - 1
            + (CHOOSE j \in 1..Len(data) : data[j] = Byte("meta", i)), 1)

AtStdoutExit == ToStdout /\ pc = "out_dentry_reset_needs_extraction"

(***************************************************************************)
(* C15: with TO_STDOUT, a root that is not a regular file makes            *)
(* extract_tree return NOT_A_REGULAR_FILE with no byte written to standard *)
(* output; on every TO_STDOUT path no progress message is emitted, the     *)
(* backend's apply_dentry and apply_dentry_timestamps are never called,    *)
(* and the reset of needs_extraction and i_visited still runs.             *)
(***************************************************************************)
C15_StdoutPaths ==
    ToStdout =>
        /\ Messages = <<>>
        /\ \A e \in Range(trace) :
              e.ev \notin {"apply_dentry", "apply_dentry_failed",
                           "apply_dentry_timestamps", "visit"}
        /\ pc \in {"start", "get_dentry", "plan", "planned",
                   "out_dentry_reset_needs_extraction", "out_ntfs_umount",
                   "out"}
        /\ \A e \in Range(trace) :
              e.ev \in {"stdout", "read"} => ~dentry_is_directory(cmd.root)
        /\ AtStdoutExit =>
              /\ \A d \in Subtree(cmd.root) : needs_extraction[d] = 1
              /\ IF dentry_is_directory(cmd.root)
                 THEN ret = "NOT_A_REGULAR_FILE"
                 ELSE ret \in {"OK", "WRITE"}
        /\ Returned =>
              /\ \A d \in Dentries : needs_extraction[d] = 0 /\ i_visited[d] = 0
              /\ dentry_is_directory(cmd.root) => ret # "OK"

\* a directory with children was asked for on standard output: the planner
\* had marked its subtree, and the call returned the error with the marks
\* reset and nothing written
C15_Witness ==
    /\ ToStdout /\ Returned
    /\ dentry_is_directory(cmd.root)
    /\ planned # <<>>
    /\ ret = "NOT_A_REGULAR_FILE"
    /\ \A d \in Subtree(cmd.root) : needs_extraction[d] = 0
    /\ \A e \in Range(trace) : e.ev # "stdout"


(***************************************************************************)
(* What the history of a wimlib_extract_files() or wimlib_extract_image()  *)
(* call shows.                                                             *)
(***************************************************************************)
ACount(e) == Cardinality({i \in 1..Len(atrace) : atrace[i].ev = e})
AHas(e) == ACount(e) > 0
ApiReturned == apc = "out"
\* the commands as do_wimlib_extract_files() is given them: the commands of
\* the call with the default flags added, or the one command of an image
BuiltCommands ==
    IF api.fn = "extract_files"
    THEN [k \in 1..Len(api.cmds) |->
            ApiCommand(api.cmds[k].wim_source_path, api.cmds[k].fs_dest_path,
                       (api.cmds[k].extract_flags
                          \cup api.default_extract_flags)
                         \cap WIMLIB_EXTRACT_MASK_PUBLIC)]
    ELSE <<ApiCommand("", IF api.image = WIM_ALL_IMAGES THEN "p" ELSE api.target,
                      api.extract_flags)>>
\* RPFIX is given, or neither RPFIX nor NORPFIX is given, the header
\* declares it and the whole image is extracted
EffectiveRpfix(c) ==
    \/ "RPFIX" \in c.extract_flags
    \/ /\ c.extract_flags \cap {"RPFIX", "NORPFIX"} = {}
       /\ api.rp_fix
       /\ c.wim_source_path = ""
BadCommand(c) ==
    \/ c.fs_dest_path = ""
    \/ LinkFlags \subseteq c.extract_flags
    \/ {"RPFIX", "NORPFIX"} \subseteq c.extract_flags
    \/ "NTFS" \in c.extract_flags /\ c.extract_flags \cap LinkFlags # {}
    \/ "NTFS" \in c.extract_flags /\ c.wim_source_path # ""
    \/ EffectiveRpfix(c) /\ c.wim_source_path # ""
MixedLinkModes(cs) ==
    \E j, k \in 1..Len(cs) :
        /\ cs[j].extract_flags \cap LinkFlags # {}
        /\ cs[k].extract_flags \cap LinkFlags = {}
BadCall ==
    \/ \E k \in 1..Len(BuiltCommands) : BadCommand(BuiltCommands[k])
    \/ MixedLinkModes(BuiltCommands)
\* do_wimlib_extract_files() has been given its commands
CommandsBuilt == api.cmds_copy # <<>>
\* the checks made since the image was selected, before event j
ChecksBefore(j) ==
    LET S == {i \in 1..(j - 1) : atrace[i].ev = "select_wim_image"}
        s == CHOOSE i \in S : \A h \in S : h <= i
    IN {atrace[i].x : i \in {h \in (s + 1)..(j - 1) :
                               atrace[h].ev = "check_extract_command"}}

(***************************************************************************)
(* C16: in a wimlib_extract_files() or wimlib_extract_image() call every   *)
(* command is validated before any command is executed.  If a command has  *)
(* an empty destination, SYMLINK with HARDLINK, RPFIX with NORPFIX, NTFS   *)
(* with a link mode or with a non-empty source path, effective RPFIX with  *)
(* a non-empty source path, or if link-mode and other commands are mixed,  *)
(* then extract_tree() is run for no command, not even for a valid command *)
(* earlier in the list, and the call that gets as far as validating        *)
(* returns INVALID_PARAM.  Without RPFIX and NORPFIX, RPFIX is effective   *)
(* iff the header declares it and the source path is empty.                *)
(***************************************************************************)
C16_ValidateBeforeExecute ==
    CommandsBuilt =>
        /\ BadCall =>
              /\ ~AHas("extract_tree")
              /\ (ApiReturned /\ AHas("check_extract_command")) =>
                    api.ret = "INVALID_PARAM"
        /\ \A j \in 1..Len(atrace) :
              atrace[j].ev = "extract_tree" =>
                 ChecksBefore(j) = 1..Len(api.cmds_copy)
        /\ apc = "execute" =>
              /\ ~BadCall
              /\ ChecksBefore(Len(atrace) + 1) = 1..Len(api.cmds_copy)
              /\ \A k \in 1..Len(BuiltCommands) :
                    LET given == BuiltCommands[k].extract_flags
                        used == api.cmds_copy[k].extract_flags
                    IN /\ "RPFIX" \in used <=> EffectiveRpfix(BuiltCommands[k])
                       /\ used \ {"RPFIX"} = given \ {"RPFIX"}

\* two commands, the first valid and the second with an empty destination:
\* both were checked, none was executed, the call returned INVALID_PARAM
C16_Witness ==
    /\ ApiReturned
    /\ api.fn = "extract_files"
    /\ Len(api.cmds) = 2
    /\ ~BadCommand(BuiltCommands[1])
    /\ api.cmds[2].fs_dest_path = ""
    /\ atrace[Len(atrace)].ev # "check_extract_command"
    /\ \E i, j \in 1..Len(atrace) :
          /\ i < j
          /\ atrace[i] = AEv("check_extract_command", 1)
          /\ atrace[j] = AEv("check_extract_command", 2)
    /\ ~AHas("extract_tree")
    /\ api.ret = "INVALID_PARAM"


\* the positions of event e in the history
APositions(e) == {i \in 1..Len(atrace) : atrace[i].ev = e}
\* the call is one that merges: it has secondary archives, its set of
\* archives was verified, and it is not wimlib_extract_files() without
\* commands
MergingCall ==
    /\ api.num_additional_swms # 0
    /\ ~(api.fn = "extract_files" /\ api.num_cmds = 0)

(***************************************************************************)
(* C20: wimlib_extract_image() and wimlib_extract_files() merge the        *)
(* secondary lookup tables at most once in a call; a call that merged      *)
(* them unmerges them exactly once before it returns, on every exit        *)
(* (success, validation error, allocation failure, extraction failure),    *)
(* and after everything else it does; a call that did not merge (no        *)
(* secondary archives, or no commands) never unmerges.                     *)
(***************************************************************************)
C20_MergeUnmergePaired ==
    /\ ACount("merge") <= 1
    /\ ACount("unmerge") <= ACount("merge")
    /\ AHas("merge") => MergingCall
    /\ (MergingCall /\ apc \notin {"idle", "entry", "merge", "out"}) =>
          AHas("merge") /\ ~AHas("unmerge")
    /\ ApiReturned =>
          /\ ACount("unmerge") = ACount("merge")
          /\ AHas("merge") <=> (MergingCall /\ api.ret # "SPLIT_INVALID")
          /\ AHas("unmerge") => atrace[Len(atrace)].ev = "unmerge"
    /\ \A i \in APositions("merge") : \A j \in 1..Len(atrace) :
          atrace[j].ev \notin {"verify_swm_set"} /\ j # i => i < j

\* one witness for each kind of exit of a call that merged
MergedAndReturned == ApiReturned /\ ACount("merge") = 1 /\ ACount("unmerge") = 1
C20_Witness ==
    /\ MergedAndReturned
    /\ api.fn = "extract_files"
    /\ api.ret = "WRITE"
    /\ AHas("extract_tree")
    /\ atrace[1].ev = "verify_swm_set" /\ atrace[2].ev = "merge"
    /\ atrace[Len(atrace)].ev = "unmerge"


(***************************************************************************)
(* What the planner leaves: the state at the end of                        *)
(* find_streams_for_extraction() and calculate_bytes_to_extract().         *)
(***************************************************************************)
Planned == pc = "planned"
\* the inodes of the dentries of the selected subtree
SubtreeInodes == {d_inode(d) : d \in Subtree(cmd.root)}
\* the streams of an inode that the planner looks at: the unnamed stream,
\* and the named streams when extracting to an NTFS volume
StreamSlots(inode) ==
    <<inode_unnamed_lte_resolved(inode)>>
      \o (IF "NTFS" \in cmd.flags THEN i_ads_ltes(inode) ELSE <<>>)
\* the references to descriptor s from the inodes of the subtree
InodeReferences(s) ==
    {<<i, k>> \in SubtreeInodes \X (1..(NumStreams + 1)) :
        k <= Len(StreamSlots(i)) /\ StreamSlots(i)[k] = s}
\* the (dentry, stream) pairs of the subtree with a stream
DentryStreamPairs ==
    {<<d, k>> \in Subtree(cmd.root) \X (1..(NumStreams + 1)) :
        /\ k <= Len(StreamSlots(d_inode(d)))
        /\ StreamSlots(d_inode(d))[k] # NULL}
ReferencedStreams == {s \in Streams : InodeReferences(s) # {}}
NoDuplicates(seq) == \A i, j \in 1..Len(seq) : seq[i] = seq[j] => i = j
\* the dentry lists of the listed descriptors hold dentries of the subtree,
\* each at most once and on one list; every dentry of the subtree is marked
DentryListsPlanned ==
    /\ \A s \in Range(stream_list) :
          /\ Range(lte_dentry_list[s]) \subseteq Subtree(cmd.root)
          /\ NoDuplicates(lte_dentry_list[s])
    /\ \A s, t \in Range(stream_list) :
          s # t => Range(lte_dentry_list[s]) \cap Range(lte_dentry_list[t]) = {}
    /\ \A d \in Subtree(cmd.root) : needs_extraction[d] = 1
\* an earlier planning left something on descriptors outside the subtree
LeftOver ==
    \E s \in Streams \ ReferencedStreams :
        out_refcnt[s] >= 1 /\ lte_dentry_list[s] # <<>>

(***************************************************************************)
(* C17 as stated: after planning, the stream list contains each descriptor *)
(* at most once and contains exactly the descriptors whose out_refcnt is   *)
(* at least 1; the dentry lists of the listed descriptors hold dentries of *)
(* the subtree only; no dentry is on two of the lists or twice on one;     *)
(* needs_extraction is set on every dentry of the subtree.                 *)
(***************************************************************************)
C17_ListIsPositiveRefcnts ==
    Planned =>
        /\ NoDuplicates(stream_list)
        /\ Range(stream_list) = {s \in Streams : out_refcnt[s] >= 1}
        /\ DentryListsPlanned

(***************************************************************************)
(* C17, amended: after planning, the stream list contains each descriptor  *)
(* at most once and contains exactly the descriptors referenced by an      *)
(* inode of the subtree (by its unnamed stream, or by a named stream when  *)
(* extracting to NTFS); these have out_refcnt at least 1, while a          *)
(* descriptor that no inode of the subtree has keeps the out_refcnt an     *)
(* earlier planning gave it.  The dentry lists of the listed descriptors   *)
(* hold dentries of the subtree only, no dentry is on two of them or twice *)
(* on one, and needs_extraction is set on every dentry of the subtree.     *)
(***************************************************************************)
C17_PlannerPostconditions ==
    Planned =>
        /\ NoDuplicates(stream_list)
        /\ Range(stream_list) = ReferencedStreams
        /\ \A s \in Range(stream_list) : out_refcnt[s] >= 1
        /\ DentryListsPlanned
        /\ \A d \in Dentries \ Subtree(cmd.root) : needs_extraction[d] = 0
        /\ \A d \in Subtree(cmd.root) :
              inode_unnamed_lte_resolved(d_inode(d)) # NULL =>
                 d \in Range(lte_dentry_list[inode_unnamed_lte_resolved(d_inode(d))])

\* a subtree was planned after another one: a descriptor of the earlier
\* subtree still has its count and its dentry list and is not listed, and a
\* listed descriptor that the earlier planning had listed too holds only
\* dentries of the new subtree
C17_Witness ==
    /\ Planned
    /\ LeftOver
    /\ \E s \in Range(stream_list) :
          /\ lte_dentry_list[s] # <<>>
          /\ Subtree(cmd.root) # Dentries


RECURSIVE SumRefcnts(_)
\* the sum of out_refcnt over the descriptors 1..n
SumRefcnts(n) == IF n = 0 THEN 0 ELSE out_refcnt[n] + SumRefcnts(n - 1)
RECURSIVE SumReferenced(_)
\* the same sum over the descriptors that an inode of the subtree has
SumReferenced(n) ==
    IF n = 0 THEN 0
    ELSE (IF n \in ReferencedStreams THEN out_refcnt[n] ELSE 0)
           + SumReferenced(n - 1)

(***************************************************************************)
(* C18 as stated: after planning, the sum of out_refcnt over all stream    *)
(* descriptors equals the number of (dentry, stream) pairs needing         *)
(* extraction in the selected subtree, also when several dentries are hard *)
(* links sharing one inode.                                                *)
(***************************************************************************)
C18_SumCountsDentryPairs ==
    Planned => SumRefcnts(NumStreams) = Cardinality(DentryStreamPairs)

(***************************************************************************)
(* C18, amended: after planning, out_refcnt of a descriptor that an inode  *)
(* of the subtree has equals the number of references to it from the       *)
(* distinct inodes of the subtree's dentries (an inode counts once however *)
(* many hard-linked dentries name it), so the sum of out_refcnt over these *)
(* descriptors is the number of (inode, stream) pairs and is at most the   *)
(* number of (dentry, stream) pairs; descriptors of no inode of the        *)
(* subtree are not counted anew.                                           *)
(***************************************************************************)
C18_RefcntCountsInodeReferences ==
    Planned =>
        /\ \A s \in ReferencedStreams :
              out_refcnt[s] = Cardinality(InodeReferences(s))
        /\ SumReferenced(NumStreams)
              = Cardinality(UNION {InodeReferences(s) : s \in Streams})
        /\ SumReferenced(NumStreams) <= Cardinality(DentryStreamPairs)
        /\ (\A d, e \in Subtree(cmd.root) : d_inode(d) = d_inode(e) => d = e)
              => SumReferenced(NumStreams) = Cardinality(DentryStreamPairs)

\* two hard links of one inode with a stream were planned: one reference
\* is counted for the two (dentry, stream) pairs
C18_Witness ==
    /\ Planned
    /\ \E d, e \in Subtree(cmd.root) :
          /\ d # e /\ d_inode(d) = d_inode(e)
          /\ inode_unnamed_lte_resolved(d_inode(d)) # NULL
          /\ out_refcnt[inode_unnamed_lte_resolved(d_inode(d))] = 1
          /\ lte_dentry_list[inode_unnamed_lte_resolved(d_inode(d))] = <<d, e>>
    /\ Cardinality(DentryStreamPairs) = 2
    /\ SumRefcnts(NumStreams) = 1


RECURSIVE SumOverStreams(_, _, _)
\* the sum of f[s] over the descriptors s of 1..n that are in S
SumOverStreams(n, S, f) ==
    IF n = 0 THEN 0
    ELSE (IF n \in S THEN f[n] ELSE 0) + SumOverStreams(n - 1, S, f)
\* the listed descriptors that no earlier linked extraction materialised
NotYetExtracted == {s \in Range(stream_list) : ~extracted_file[s]}

(***************************************************************************)
(* C19: the totals computed after planning are, without a link mode,       *)
(* num_streams = the sum of out_refcnt and total_bytes = the sum of        *)
(* out_refcnt * size over the stream list; with SYMLINK or HARDLINK every  *)
(* listed descriptor whose extracted_file is unset counts once, so         *)
(* num_streams is their number and total_bytes the sum of their sizes;     *)
(* completed_bytes is 0.                                                   *)
(***************************************************************************)
C19_ProgressTotals ==
    Planned =>
        /\ progress.completed_bytes = 0
        /\ IF cmd.flags \cap LinkFlags = {}
           THEN /\ progress.num_streams
                     = SumOverStreams(NumStreams, Range(stream_list), out_refcnt)
                /\ progress.total_bytes
                     = SumOverStreams(NumStreams, Range(stream_list),
                          [s \in Streams |-> out_refcnt[s] * wim_resource_size(s)])
           ELSE /\ progress.num_streams = Cardinality(NotYetExtracted)
                /\ progress.total_bytes
                     = SumOverStreams(NumStreams, NotYetExtracted,
                          [s \in Streams |-> wim_resource_size(s)])

\* a linked extraction of two streams, one of which an earlier command of
\* the call has extracted: one stream and its size are the totals
C19_Witness ==
    /\ Planned
    /\ cmd.flags \cap LinkFlags # {}
    /\ Len(stream_list) = 2
    /\ Cardinality(NotYetExtracted) = 1
    /\ progress.num_streams = 1
    /\ \E s \in NotYetExtracted : progress.total_bytes = wim_resource_size(s)


(***************************************************************************)
(* What the history of a wimlib_overwrite_xml_and_header() call shows.     *)
(***************************************************************************)
IsXmlCall == call.op = "xml"
\* the place of a step of the call in the order read, XML, table, header
StepRank(ev) ==
    CASE ev \in {"fclose_undefined", "reopen"} -> 0
      [] ev = "read_integrity" -> 1
      [] ev \in {"overwrite_xml", "overwrite_xml_failed"} -> 2
      [] ev \in {"write_integrity", "write_integrity_failed",
                 "truncate", "truncate_failed"} -> 3
      [] ev \in {"overwrite_header", "overwrite_header_failed"} -> 4
      [] OTHER -> 5
\* the bytes of the archive in [header_size, off)
PayloadBefore(f, off) ==
    ReadAt(f.data, WIM_HEADER_DISK_SIZE, off - WIM_HEADER_DISK_SIZE)
\* the table the call writes after the new XML
TableToWrite ==
    IF call.integrity_table # <<>> THEN call.integrity_table
    ELSE IntegrityData(wim.hdr.lookup_table_res_entry.offset
                       + wim.hdr.lookup_table_res_entry.size)

(***************************************************************************)
(* C21: in wimlib_overwrite_xml_and_header the steps occur in this order:  *)
(* the existing integrity table (with CHECK_INTEGRITY, when there is one)  *)
(* is read before any byte of the file is written; the new XML is written  *)
(* at the unchanged XML offset; the saved table (or a new one covering the *)
(* bytes up to the end of the lookup table) is written right after the new *)
(* XML and the integrity offset is the end of the new XML; the header is   *)
(* rewritten last.  No byte in [header_size, xml offset) is modified.      *)
(***************************************************************************)
C21_XmlOverwriteOrder ==
    IsXmlCall =>
      LET off == wim.hdr.xml_res_entry.offset
          xml_end == off + wim.hdr.xml_res_entry.size
      IN /\ \A i, j \in 1..Len(wtrace) :
               i < j => StepRank(wtrace[i].ev) < StepRank(wtrace[j].ev)
                          \/ StepRank(wtrace[j].ev) = 0
         \* the read comes first, from the file as the call found it
         /\ wpc \in {"reopen_rw", "read_integrity", "overwrite_xml"}
               => fs[OrigFile] = call.orig0
         /\ wpc \in {"overwrite_xml", "overwrite_integrity"}
               => /\ WHas(WEv("read_integrity", 1))
                       <=> (CHECK_INTEGRITY \in call.flags
                            /\ wim.hdr.integrity.offset # 0)
                  /\ WHas(WEv("read_integrity", 1))
                       => call.integrity_table
                            = ReadAt(call.orig0.data, wim.hdr.integrity.offset,
                                     wim.hdr.integrity.size)
                  /\ ~WHas(WEv("read_integrity", 1))
                       => call.integrity_table = <<>>
         \* the new XML at the XML offset
         /\ \A i \in 1..Len(wtrace) :
               wtrace[i].ev \in {"overwrite_xml", "overwrite_xml_failed"}
                  => wtrace[i].x = off
         /\ WHas(WEv("overwrite_xml", off))
               => /\ ReadAt(fs[OrigFile].data, off, wim.hdr.xml_res_entry.size)
                       = XmlData(wim.wim_info)
                  /\ wim.hdr.xml_res_entry.size = Len(XmlData(wim.wim_info))
         \* the table right after it
         /\ \A i \in 1..Len(wtrace) :
               wtrace[i].ev \in {"write_integrity", "write_integrity_failed",
                                 "truncate", "truncate_failed"}
                  => wtrace[i].x = xml_end
         /\ WHas(WEv("write_integrity", xml_end))
               => /\ CHECK_INTEGRITY \in call.flags
                  /\ wim.hdr.integrity.offset = xml_end
                  /\ ReadAt(fs[OrigFile].data, xml_end, Len(TableToWrite))
                       = TableToWrite
         \* the header last
         /\ ~WHas(WEv("overwrite_header", 0))
               => fs[OrigFile].hdr = call.orig0.hdr
         /\ WHas(WEv("overwrite_header", 0))
               => /\ fs[OrigFile].hdr = wim.hdr
                  /\ WHas(WEv("overwrite_xml", off))
                  /\ WHas(WEv("write_integrity", xml_end))
                       \/ WHas(WEv("truncate", xml_end))
         \* the resources and the lookup table before the XML
         /\ PayloadBefore(fs[OrigFile], off) = PayloadBefore(call.orig0, off)

\* a call with CHECK_INTEGRITY that saved the old table, wrote a new XML
\* of another length, wrote the table back and rewrote the header
C21_Witness ==
    /\ IsXmlCall /\ WReturned
    /\ log[Len(log)].ret = "OK"
    /\ WHas(WEv("read_integrity", 1))
    /\ WHas(WEv("overwrite_header", 0))
    /\ call.integrity_table # <<>>
    /\ fs[OrigFile].data # call.orig0.data


(***************************************************************************)
(* C22: when the allocation inside the SEQUENTIAL sort fails the stream    *)
(* list stays exactly in the planner's discovery order, extract_tree does  *)
(* not fail because of it, and phases A, B and C and the progress messages *)
(* proceed as in an extraction without SEQUENTIAL: phase B visits the      *)
(* descriptors in the planner's order and a call that meets no other       *)
(* failure returns 0 with every phase done.                                *)
(***************************************************************************)
SortFailed ==
    /\ "SEQUENTIAL" \in cmd.flags
    /\ "SEQUENTIAL" \notin extract_flags
    /\ pc \notin {"start", "get_dentry", "plan", "planned"}

C22_SortFailureKeepsOrder ==
    SortFailed =>
      /\ stream_list = planned
      /\ Visited = SubSeq(planned, 1, Len(Visited))
      /\ pc \in {"phaseA", "phaseB", "phaseC"} => ret = "OK"
      /\ StreamsDone => Visited = planned
      /\ Succeeded =>
            /\ Len(EventsOf({"apply_dentry_timestamps"}))
                 = Cardinality(Subtree(cmd.root))
            /\ \A s \in Range(planned) : Reads(s) >= 1
            /\ cmd.progress =>
                  /\ MsgNames[1] \in BeginMsgs
                  /\ MsgNames[Len(MsgNames)] \in EndMsgs
                  /\ CountMsgs({"APPLY_TIMESTAMPS"}) = 1

\* a successful extraction whose sort failed on a list that a sort would
\* have reordered
C22_Witness ==
    /\ SortFailed /\ Succeeded
    /\ Len(planned) >= 2
    /\ ~SortedByPosition(planned)
    /\ Visited = planned


(***************************************************************************)
(* The SEQUENTIAL sort on its own.                                         *)
(***************************************************************************)
Sorted == pc = "phaseA" /\ "SEQUENTIAL" \in extract_flags
\* the place of descriptor s in list l
PlaceIn(l, s) == CHOOSE i \in 1..Len(l) : l[i] = s
\* two descriptors of the planned list at the same archive position
Tied(a, b) ==
    /\ a \in Range(planned) /\ b \in Range(planned)
    /\ a # b
    /\ WimPosition(a) = WimPosition(b)

(***************************************************************************)
(* C23 as stated: when the SEQUENTIAL sort runs, descriptors whose archive *)
(* positions compare equal keep their relative order from the planner's    *)
(* stream list.                                                            *)
(***************************************************************************)
C23_TiesKeepPlannerOrder ==
    Sorted =>
      \A a, b \in SortStreams :
         (Tied(a, b) /\ PlaceIn(planned, a) < PlaceIn(planned, b))
            => PlaceIn(stream_list, a) < PlaceIn(stream_list, b)

(***************************************************************************)
(* C23, amended: when the SEQUENTIAL sort runs the stream list holds the   *)
(* planned descriptors, each once, in non-decreasing order of their        *)
(* archive positions; the relative order of descriptors whose positions    *)
(* compare equal is whatever qsort() leaves.                               *)
(***************************************************************************)
C23_SortedByKeyOnly ==
    Sorted =>
      /\ Len(stream_list) = Len(planned)
      /\ Range(stream_list) = Range(planned)
      /\ \A i, j \in 1..Len(stream_list) :
            i < j => WimPosition(stream_list[i]) <= WimPosition(stream_list[j])

\* the sort has exchanged two descriptors at the same archive position
C23_Witness ==
    /\ Sorted
    /\ \E a, b \in SortStreams :
          /\ Tied(a, b)
          /\ PlaceIn(planned, a) < PlaceIn(planned, b)
          /\ PlaceIn(stream_list, b) < PlaceIn(stream_list, a)


(***************************************************************************)
(* The out_refcnt of the descriptors over a whole extract_tree() call.     *)
(***************************************************************************)
\* find_streams_for_extraction() has run in this call and has listed a
\* stream (the exits before it leave the planned list empty)
PlanningRan == pc \notin {"start", "get_dentry", "plan"} /\ planned # <<>>

XmlHints == {wtrace[i].x : i \in {j \in 1..Len(wtrace) : wtrace[j].ev = "xml"}}
WritesSubset == call.op = "write" /\ call.image # WIM_ALL_IMAGES

(***************************************************************************)
(* C25 as stated: when wimlib_write writes a single image rather than all  *)
(* images the XML writer is passed the total-bytes hint of the original    *)
(* archive; when it writes all images the hint is 0.                       *)
(***************************************************************************)
C25_HintForSubset ==
    call.op \in {"write", "overwrite"} =>
       XmlHints \subseteq {IF call.image # WIM_ALL_IMAGES
                           THEN wim_info_get_total_bytes ELSE 0}

(***************************************************************************)
(* C25, amended: the hint depends on write_lt only, and wimlib_write calls *)
(* finish_write with write_lt = 1: the XML writer is passed the hint 0     *)
(* when wimlib_write writes a single image as well as when it writes all   *)
(* images.                                                                 *)
(***************************************************************************)
C25_HintIsZero ==
    /\ XmlHint(write_lt) = 0
    /\ call.op \in {"write", "overwrite"} => XmlHints \subseteq {0}

\* the XML of an archive of one image out of several has been written
C25_Witness ==
    /\ WritesSubset
    /\ call.image \in 1..NumImages /\ NumImages > 1
    /\ XmlHints = {0}


(***************************************************************************)
(* The EXTRACT_STREAMS messages of phase B.                                *)
(***************************************************************************)
StreamMsgs == EventsOf({"EXTRACT_STREAMS"})
\* the messages that report every byte as extracted
FinalMsgs ==
    {i \in 1..Len(StreamMsgs) : StreamMsgs[i].x >= progress.total_bytes}

PlanStep == pc = "plan" /\ pc' = "planned"
\* what the planner leaves when it starts from all-zero fields
FromCleanSlate == find_streams_for_extraction(cmd.root, FreshPlan, extract_flags)
\* no inode of the subtree has its i_visited flag set
NoneVisited == \A d \in Subtree(cmd.root) : i_visited[d_inode(d)] = 0
\* the references to s from the inodes whose flag is not set
UnvisitedReferences(s) == {r \in InodeReferences(s) : i_visited[r[1]] = 0}

RECURSIVE RelativePath(_, _)
\* the path of dentry d relative to its ancestor root
RelativePath(d, root) ==
    IF Parent(d) = root THEN DentryName(d)
    ELSE RelativePath(Parent(d), root) \o <<Separator>> \o DentryName(d)

(***************************************************************************)
(* C28 as stated: the output path handed to the backend is the target for  *)
(* the extraction root and, for every other dentry, the target, one '/'    *)
(* and the path of the dentry relative to the extraction root - in a       *)
(* full-image extraction and in a sub-path extraction.                     *)
(***************************************************************************)
C28_OutputPath ==
    \A i \in 1..Len(trace) :
       trace[i].path =
          IF trace[i].x = cmd.root THEN cmd.target
          ELSE cmd.target \o <<Separator>> \o RelativePath(trace[i].x, cmd.root)


(***************************************************************************)
(* The WIMStruct after a wimlib_overwrite() that returned 0.               *)
(***************************************************************************)
OverwriteSucceeded ==
    /\ Len(log) >= 1
    /\ log[1].op = "overwrite" /\ log[1].ret = "OK" /\ ~log[1].crashed
\* the resource entries of a header
ResourceEntries(hdr) ==
    <<hdr.lookup_table_res_entry, hdr.xml_res_entry, hdr.integrity,
      hdr.boot_metadata_res_entry>>

(***************************************************************************)
(* C29 as stated: after wimlib_overwrite has returned success the          *)
(* resource entries of the in-memory header equal those of the header of   *)
(* the file now at the filename and the read handle of the archive is      *)
(* open, so that a following overwrite_xml_and_header or overwrite never   *)
(* closes a null handle.                                                   *)
(***************************************************************************)
C29_ConsistentAfterOverwrite ==
    OverwriteSucceeded =>
        /\ (wpc = "idle" /\ Len(log) = 1) =>
              /\ wim.fp = "open"
              /\ ResourceEntries(wim.hdr) = ResourceEntries(fs[OrigFile].hdr)
        /\ (wpc # "idle" /\ Len(log) = 1) =>
              ~WHas(WEv("fclose_undefined", 0))
        /\ \A i \in 2..Len(log) : ~log[i].crashed \/ log[i].faults > 0


(***************************************************************************)
(* The end of the file after wimlib_overwrite_xml_and_header().            *)
(***************************************************************************)
XmlCallSucceeded ==
    /\ IsXmlCall /\ WReturned
    /\ log[Len(log)].ret = "OK" /\ ~log[Len(log)].crashed
EntryEnd(e) == e.offset + e.size
Larger(a, b) == IF a >= b THEN a ELSE b

(***************************************************************************)
(* C30 as stated: after a successful overwrite_xml_and_header the file     *)
(* ends at the end of the last region of the rewritten header: at the end  *)
(* of the new XML without CHECK_INTEGRITY, at integrity offset + size with *)
(* it - also when the new XML is shorter than the old one.                 *)
(***************************************************************************)
C30_FileEndsAtLastRegion ==
    XmlCallSucceeded =>
        LET f == fs[OrigFile]
        IN IF CHECK_INTEGRITY \in call.flags
           THEN EndOffset(f.data) = EntryEnd(f.hdr.integrity)
           ELSE /\ EndOffset(f.data) = EntryEnd(f.hdr.xml_res_entry)
                /\ f.hdr.integrity = ZeroEntry

(***************************************************************************)
(* C30, amended: without CHECK_INTEGRITY the file is truncated and ends at *)
(* the end of the new XML, and the integrity entry is zeroed.  With        *)
(* CHECK_INTEGRITY the file is not truncated: the table starts at the end  *)
(* of the new XML and the file ends at the end of the table or where it    *)
(* ended before the call, whichever is later; bytes of the old tail remain *)
(* after the table when the new XML is shorter.                            *)
(***************************************************************************)
C30_FileEnd ==
    XmlCallSucceeded =>
        LET f == fs[OrigFile]
        IN IF CHECK_INTEGRITY \in call.flags
           THEN /\ f.hdr.integrity.offset = EntryEnd(f.hdr.xml_res_entry)
                /\ EndOffset(f.data)
                     = Larger(EntryEnd(f.hdr.integrity),
                              EndOffset(call.orig0.data))
                /\ \A o \in EntryEnd(f.hdr.integrity)..(EndOffset(f.data) - 1) :
                      ReadAt(f.data, o, 1) = ReadAt(call.orig0.data, o, 1)
           ELSE /\ EndOffset(f.data) = EntryEnd(f.hdr.xml_res_entry)
                /\ f.hdr.integrity = ZeroEntry

\* a shorter XML was written with CHECK_INTEGRITY: a byte of the old tail
\* follows the table
C30_Witness ==
    /\ XmlCallSucceeded
    /\ CHECK_INTEGRITY \in call.flags
    /\ fs[OrigFile].hdr.xml_res_entry.size < call.orig0.hdr.xml_res_entry.size
    /\ EndOffset(fs[OrigFile].data) > EntryEnd(fs[OrigFile].hdr.integrity)


(***************************************************************************)
(* The temporary file after a wimlib_overwrite() that returned an error.   *)
(***************************************************************************)
\* the call has returned an error after fopen() had created the temporary
\* file
OverwriteFailedAfterCreate ==
    /\ IsOverwrite /\ WReturned
    /\ log[Len(log)].ret # "OK" /\ ~log[Len(log)].crashed
    /\ WHas(WEv("open", 0))

(***************************************************************************)
(* C31 as stated: whenever wimlib_overwrite returns an error after the     *)
(* temporary file was created (the write of the temporary archive failed,  *)
(* or the rename failed) no file with the temporary name is left.          *)
(***************************************************************************)
C31_NoTemporaryLeft ==
    OverwriteFailedAfterCreate => ~fs[TmpFile].exists

(***************************************************************************)
(* C31, amended: when the write of the temporary archive fails after the   *)
(* file was created, wimlib_overwrite returns the error of the write and   *)
(* leaves the temporary file, with what was written of it; when the rename *)
(* fails, the file is left exactly when the unlink fails too.  A call that *)
(* fails before the file is created leaves none.                           *)
(***************************************************************************)
C31_TemporaryLeftAfterFailedWrite ==
    (IsOverwrite /\ WReturned /\ ~log[Len(log)].crashed) =>
        /\ (OverwriteFailedAfterCreate /\ call.ret # "RENAME") =>
              /\ fs[TmpFile].exists
              /\ ~WHas(WEv("rename", 0)) /\ ~WHas(WEv("unlink", 1))
              /\ wim.out_fp = "null"
        /\ (OverwriteFailedAfterCreate /\ call.ret = "RENAME") =>
              (fs[TmpFile].exists <=> WHas(WEv("unlink", 0)))
        /\ ~WHas(WEv("open", 0)) => ~fs[TmpFile].exists
        /\ call.ret = "OK" => ~fs[TmpFile].exists

\* the write failed in the middle of the file resources: the call has
\* returned the Write error and the unfinished temporary file is there
C31_Witness ==
    /\ OverwriteFailedAfterCreate
    /\ call.ret = "WRITE"
    /\ \E i \in 1..Len(wtrace) : wtrace[i].ev = "metadata_failed"
    /\ fs[TmpFile].exists
    /\ fs[TmpFile].data # <<>>
    /\ fs[OrigFile] = call.orig0

=============================================================================
